---- MODULE Spec2Model ----
(***************************************************************************)
(* Account and token lifecycle of the Ivory Foundation Group client portal *)
(* (src/server/index.js): the clients table, the audit log, the session    *)
(* store, the login rate limiter and the request handlers, each handler    *)
(* cut at the points where it waits for the database or for bcrypt, which  *)
(* is where requests of other clients interleave.  A slot of reqs holds a   *)
(* request in flight or the answer last sent from it.  The specifications  *)
(* at the end each run a group of handlers over a small set of inputs.     *)
(***************************************************************************)
EXTENDS Integers, Sequences, FiniteSets, TLC

VARIABLES
    clients,      \* table clients: id -> row
    lastId,       \* AUTOINCREMENT sequence of table clients
    auditLogs,    \* table audit_logs, in insertion order
    auditQueue,   \* audit INSERTs handed to the store and not yet executed
    session,      \* session store, by client: the clientId claim of the stored
                  \* session that the client's cookie names (NoClaim: the store
                  \* has none; clientEmail is written with it and never read)
    cookie,       \* the session id in each client's connect.sid cookie (0: none)
    limiter,      \* loginLimiter's store: address -> [hits, resetTime]
    now,          \* the clock, in units of 7.5 minutes
    drawn,        \* number of crypto.randomBytes(32) draws made so far
    seedPending,  \* seed inserts of the first startup still waiting for bcrypt
    outbox,       \* messages handed to transporter.sendMail
    settled,      \* messages whose sendMail promise has settled, with the outcome
    files,        \* table files: id -> row
    lastFileId,   \* AUTOINCREMENT sequence of table files
    uploads,      \* names of the files in protected/uploads
    portalFile,   \* whether protected/clients-protected.html exists
    reqs          \* requests in flight: slot -> request record

vars == <<clients, lastId, auditLogs, auditQueue, session, cookie, limiter, now, drawn,
          seedPending, outbox, settled, files, lastFileId, uploads, portalFile,
          reqs>>

---------------------------------------------------------------------------
(* Bounds of the model *)

MaxClients == 4      \* rows ever inserted into clients
MaxAudit == 3        \* rows ever inserted into audit_logs
MaxDraws == 2        \* random tokens ever drawn
MaxTicks == 12       \* clock advances after startup
MaxFiles == 2        \* rows ever inserted into files
MaxLogins == 3       \* logins sent where the limiter is not the subject
MaxDays == 2         \* whole days the clock is advanced by
StartTime == 181     \* the clock at startup (22:37:30 UTC of day 0)

Procs == {"r1", "r2"}                      \* requests in flight at once
Sessions == {"s1", "s2"}                   \* session cookies in use
Addrs == {"10.0.0.1", "10.0.0.2"}          \* client addresses
Emails == {"client@ivory.example", "admin@ivory.example", "a@x.com"}
Missing == ""                              \* an absent or empty body field

---------------------------------------------------------------------------
(* Program constants *)

LimiterWindow == 2        \* windowMs: 15 * 60 * 1000 ms = 2 clock units
LimiterMax == 10          \* max
ResetLifetime == 8        \* 1 * 60 * 60 * 1000 ms = 8 clock units
DayLength == 192          \* clock units in one UTC day
SaltRounds == 10          \* bcrypt cost
NULL == 0                 \* SQL NULL in a token column
NullText == <<>>          \* SQL NULL in column reset_token_expires
NoClaim == 0              \* req.session.clientId undefined
CodeT == 84               \* the character 'T' of Date.toISOString()
CodeSpace == 32           \* the character ' ' of SQLite datetime()

---------------------------------------------------------------------------
(* Pure functions of the program *)

\* bcrypt.hash(password, 10): a one-way image of the password, of which
\* bcrypt reads the first 72 bytes only (the passwords of the model are
\* ASCII texts, one byte a character)
Hash(password) ==
    <<"bcrypt", SaltRounds,
      IF Len(password) > 72 THEN SubSeq(password, 1, 72) ELSE password>>

\* faulty variant: the password compared with the stored text as it is
ComparePlain(password, hash) == hash = password

\* bcrypt.compare(password, hash)
Compare(password, hash) == hash = Hash(password)

\* crypto.randomBytes(32).toString('hex'): the n-th draw, never repeated
Hex(n) == n

\* new Date(ms).toISOString(): "YYYY-MM-DD" "T" "HH:MM:SS.sssZ"
ToISOString(t) == <<t \div DayLength, CodeT, t % DayLength>>

\* SQLite datetime("now"): "YYYY-MM-DD" " " "HH:MM:SS"
DateTimeNow(t) == <<t \div DayLength, CodeSpace, t % DayLength>>

\* SQLite's comparison of two TEXT values: character by character
TextGreater(a, b) ==
    \/ a[1] > b[1]
    \/ a[1] = b[1] /\ a[2] > b[2]
    \/ a[1] = b[1] /\ a[2] = b[2] /\ a[3] > b[3]

\* the instant an ISO string written by ToISOString denotes
InstantOf(iso) == iso[1] * DayLength + iso[3]

---------------------------------------------------------------------------
(* The store *)

\* one row of table clients (the id is the key of the function clients)
Row(email, hash, name, isAdmin, isVerified, vtoken) ==
    [email |-> email, password_hash |-> hash, name |-> name,
     is_admin |-> isAdmin, is_verified |-> isVerified,
     verification_token |-> vtoken,
     reset_token |-> NULL, reset_token_expires |-> NullText]

\* db.get found no row
NoRow == [norow |-> TRUE]

Ids == DOMAIN clients

\* the UNIQUE constraint on clients.email
EmailTaken(email) == \E i \in Ids : clients[i].email = email

\* INSERT INTO clients: the next AUTOINCREMENT id, never reused
Insert(row) == /\ clients' = [i \in Ids \cup {lastId + 1} |->
                                 IF i = lastId + 1 THEN row ELSE clients[i]]
               /\ lastId' = lastId + 1

\* UPDATE clients SET ... WHERE id = ?: no row, no change, no error
Update(id, changes) ==
    clients' = [i \in Ids |-> IF i = id THEN changes @@ clients[i] ELSE clients[i]]

\* the values logAudit binds to its INSERT
AuditEntry(action, userId, resourceType, resourceId, details) ==
    [action |-> action, user_id |-> userId, resource_type |-> resourceType,
     resource_id |-> resourceId, details |-> details]

\* logAudit(action, userId, resourceType, resourceId, details): the INSERT
\* is handed to the store and the caller goes on
logAudit(action, userId, resourceType, resourceId, details) ==
    /\ auditQueue' = Append(auditQueue,
                            AuditEntry(action, userId, resourceType, resourceId,
                                       details))
    /\ UNCHANGED auditLogs

\* faulty variant: the row written in place of the resource's earlier rows
AuditRunReplacing(entry) ==
    auditLogs' =
        Append(SelectSeq(auditLogs,
                         LAMBDA e : ~(e.resource_type = entry.resource_type
                                      /\ e.resource_id = entry.resource_id)),
               [timestamp |-> now] @@ entry)

\* INSERT INTO audit_logs (...) VALUES (?,?,?,?,?): the row takes the next
\* id and, by the column default, the time at which the statement runs
AuditRun(entry) ==
    auditLogs' = Append(auditLogs, [timestamp |-> now] @@ entry)

\* sendEmail(to, subject, html): the message that carries a token link
sendEmail(to, subject, token) ==
    outbox' = outbox \cup {[to |-> to, subject |-> subject, token |-> token]}

---------------------------------------------------------------------------
(* Requests *)

NoBody == [keys |-> {}]

Idle == [op |-> "none", pc |-> "idle"]

\* res.status(status).json({ error })
Fail(r, status, error) ==
    [op |-> r.op, pc |-> "done", status |-> status, error |-> error,
     body |-> NoBody]

\* if (!req.session.clientId) return res.status(401)...: the answer to a
\* request whose session carries no account id (the slot keeps the cookie)
Refuse(r, s) == [sid |-> s] @@ Fail(r, 401, "Not authenticated")

\* res.json(body)
Ok(r, body) ==
    [op |-> r.op, pc |-> "done", status |-> 200, error |-> "", body |-> body]

\* a request accepted by its handler and waiting for its first callback
\* (v: the body fields and the handler's local constants; row: the row read)
Begin(op, pc, v) ==
    [op |-> op, pc |-> pc, v |-> v, row |-> NoRow]

At(p, op, pc) == reqs[p].op = op /\ reqs[p].pc = pc

Free(p) == reqs[p].pc \in {"idle", "done"}

Reply(p, r) == reqs' = [reqs EXCEPT ![p] = r]

Done(p) == reqs[p].pc = "done"

---------------------------------------------------------------------------
(* The promise of transporter.sendMail, lines 171-179 *)

\* how a promise that settles can settle (one that never does stays pending)
Outcomes == {"sent", "failed"}

Pending(m) == m \in outbox /\ \A x \in settled : x.msg # m

\* faulty variant: a failed delivery turned into the failure of the request
\* that asked for the message
MailOutcomeSurfaced(m, outcome) ==
    [p \in Procs |->
        IF /\ outcome = "failed" /\ Done(p)
           /\ reqs[p].op \in {"register", "request-password-reset"}
        THEN Fail(reqs[p], 500, "Email send error")
        ELSE reqs[p]]

\* the requests once the promise has settled: .catch logs the error and
\* returns, and no handler awaits the promise
MailOutcome(m, outcome) == reqs

MailSettle(m, outcome) ==
    /\ Pending(m)
    /\ settled' = settled \cup {[msg |-> m, outcome |-> outcome]}
    /\ reqs' = MailOutcome(m, outcome)
    /\ UNCHANGED portalFile
    /\ UNCHANGED <<clients, lastId, auditLogs, auditQueue, session, cookie, limiter, now, drawn,
                   seedPending, outbox, files, lastFileId, uploads>>

\* how a queued INSERT can end: the row is written, or the statement fails
\* and the callback of line 164 logs the error
AuditOutcomes == {"written", "error"}

\* the store runs the k-th INSERT that logAudit has handed to it; the
\* statements of different calls are not ordered among themselves
AuditInsert(k, outcome) ==
    /\ k \in 1..Len(auditQueue)
    /\ auditQueue' = [j \in 1..(Len(auditQueue) - 1) |->
                        IF j < k THEN auditQueue[j] ELSE auditQueue[j + 1]]
    /\ IF outcome = "written" THEN AuditRun(auditQueue[k]) ELSE UNCHANGED auditLogs
    /\ UNCHANGED <<settled, files, lastFileId, uploads, portalFile>>
    /\ UNCHANGED <<clients, lastId, session, cookie, limiter, now, drawn, seedPending,
                   outbox, reqs>>

---------------------------------------------------------------------------
(* Startup: db.serialize, lines 90-156 *)

SeedRow(which) ==
    IF which = "client"
    THEN [email |-> "client@ivory.example", password |-> "ChangeMe123!",
          name |-> "Default Client", is_admin |-> 0]
    ELSE [email |-> "admin@ivory.example", password |-> "AdminChangeMe!",
          name |-> "Administrator", is_admin |-> 1]

\* the columns the seed INSERT names; is_verified takes the column default
SeedVerified == 0

SeedInsertRow(which) ==
    Row(SeedRow(which).email, Hash(SeedRow(which).password), SeedRow(which).name,
        SeedRow(which).is_admin, SeedVerified, NULL)

\* the two bcrypt.hash promises of lines 142 and 148 run concurrently, and
\* the ids follow the order in which they settle
SeedOrders == {<<"client", "admin">>, <<"admin", "client">>}

\* the stores of a first startup once both seed inserts have run
Seeded == {[i \in {1, 2} |-> SeedInsertRow(order[i])] : order \in SeedOrders}

\* the seeded store with both accounts marked verified. No statement of this
\* program writes is_verified = 1 to a seed row (the seed INSERT leaves the
\* column at its default, and a seed has no verification token), so the
\* program itself never produces this store: it is the store the README
\* describes (log in with the seeded accounts), had by a deployment whose
\* database was updated directly. It is the start of the
\* scenarios that exercise what a session of an admin does, which has no
\* other start, and of no scenario that shows a fault.
Provisioned ==
    {[i \in {1, 2} |-> [store[i] EXCEPT !.is_verified = 1]] : store \in Seeded}

EmptyStore == [i \in {} |-> NoRow]

\* the store a startup finds: none yet, or the one a first startup left
StartStores == {EmptyStore} \cup Seeded

\* the state once the module has been loaded, the store being `store`
Started(store) ==
    /\ clients = store
    /\ lastId = Cardinality(DOMAIN store)
    /\ seedPending = IF store = EmptyStore THEN {"client", "admin"} ELSE {}
    /\ auditLogs = <<>>
    /\ auditQueue = <<>>
    /\ session = [s \in Sessions |-> NoClaim]
    /\ cookie = [s \in Sessions |-> 0]
    /\ limiter = [a \in Addrs |-> [hits |-> 0, resetTime |-> 0]]
    /\ now = StartTime
    /\ drawn = 0
    /\ outbox = {}
    /\ settled = {}
    /\ files = [i \in {} |-> NoRow]
    /\ lastFileId = 0
    /\ uploads = {}
    /\ portalFile = FALSE
    /\ reqs = [p \in Procs |-> Idle]

Init == \E store \in StartStores : Started(store)

InitProvisioned == \E store \in Provisioned : Started(store)

InitSeeded == \E store \in Seeded : Started(store)

\* bcrypt.hash(...).then(hash => db.run('INSERT INTO clients ...'))
Seed(which) ==
    /\ which \in seedPending
    /\ seedPending' = seedPending \ {which}
    /\ IF EmailTaken(SeedRow(which).email)
       THEN UNCHANGED <<clients, lastId>>
       ELSE Insert(SeedInsertRow(which))
    /\ UNCHANGED <<settled, files, lastFileId, uploads, portalFile>>
    /\ UNCHANGED <<auditLogs, auditQueue, session, cookie, limiter, now, drawn, outbox, reqs>>

---------------------------------------------------------------------------
(* loginLimiter, lines 73-80 *)

Min(a, b) == IF a < b THEN a ELSE b

\* one more request from address ip: a new window when none is open
\* (hits saturate at max + 1: only "hits > max" is ever tested)
Hit(ip) ==
    IF limiter[ip].hits = 0 \/ now >= limiter[ip].resetTime
    THEN [hits |-> 1, resetTime |-> now + LimiterWindow]
    ELSE [hits |-> Min(limiter[ip].hits + 1, LimiterMax + 1),
          resetTime |-> limiter[ip].resetTime]

\* faulty variant: the limit reached one request early
LimitedAtMax(entry) == entry.hits >= LimiterMax

Limited(entry) == entry.hits > LimiterMax

\* time passes; the limiter's store drops the windows that have ended (no
\* session ends: MaxTicks steps are far less than the 24 hours of line 37)
Tick ==
    /\ now < StartTime + MaxTicks
    /\ now' = now + 1
    /\ limiter' = [a \in Addrs |->
                     IF limiter[a].resetTime <= now + 1
                     THEN [hits |-> 0, resetTime |-> 0] ELSE limiter[a]]
    /\ UNCHANGED <<settled, files, lastFileId, uploads, portalFile>>
    /\ UNCHANGED <<clients, lastId, auditLogs, auditQueue, session, cookie, drawn, seedPending,
                   outbox, reqs>>

\* a day passes without a request: every limiter window (15 minutes) has
\* ended by then, and so has every session (cookie.maxAge of line 37: 24
\* hours, counted from a moment before this one)
TickDay ==
    /\ now + DayLength <= StartTime + MaxDays * DayLength
    /\ now' = now + DayLength
    /\ limiter' = [a \in Addrs |-> [hits |-> 0, resetTime |-> 0]]
    /\ session' = [s \in Sessions |-> NoClaim]
    /\ UNCHANGED <<settled, files, lastFileId, uploads, portalFile, cookie>>
    /\ UNCHANGED <<clients, lastId, auditLogs, auditQueue, drawn, seedPending, outbox, reqs>>

---------------------------------------------------------------------------
(* POST /api/login, lines 183-200 *)

\* SELECT id, email, password_hash, name, is_verified FROM clients WHERE email = ?
LoginSelect(email) ==
    IF EmailTaken(email)
    THEN LET i == CHOOSE i \in Ids : clients[i].email = email
         IN  [id |-> i, email |-> clients[i].email,
              password_hash |-> clients[i].password_hash,
              name |-> clients[i].name, is_verified |-> clients[i].is_verified]
    ELSE NoRow

\* faulty variant: the lookup callback without the is_verified test of line 191
LoginRowStatusNoVerify(row) == IF row = NoRow THEN 401 ELSE 0

\* faulty variant: the lookup callback answering an unverified account like an unknown one
LoginRowStatusHidden(row) ==
    IF row = NoRow \/ row.is_verified = 0 THEN 401 ELSE 0

\* faulty variant: the lookup callback answering an unknown email as not found
LoginRowStatusNotFound(row) ==
    IF row = NoRow THEN 404
    ELSE IF row.is_verified = 0 THEN 403
    ELSE 0

\* the status the lookup callback answers with (0: go on to bcrypt.compare)
LoginRowStatus(row) ==
    IF row = NoRow THEN 401
    ELSE IF row.is_verified = 0 THEN 403
    ELSE 0

LoginError(status) ==
    IF status = 403
    THEN "Email not verified. Check your inbox for a verification link."
    ELSE "Invalid credentials"

\* line 197: { ok: true, email: row.email, name: row.name }
LoginPayload(row) ==
    [keys |-> {"ok", "email", "name"}, email |-> row.email, name |-> row.name]

\* req.sessionID of a request from client s, as the session middleware
\* (line 31) sets it when the request arrives: the id in the cookie when
\* the store holds a session of that id, and otherwise an id generated for
\* this request (0 here: it gets its number when the session is saved)
Loaded(s) == IF session[s] = NoClaim THEN 0 ELSE cookie[s]

\* the id of a session generated for a request of client s, once it is
\* saved: one that no other client's cookie and no request in flight holds
\* (the ids are random; an id that nobody holds any more, as the one in the
\* cookie this save replaces, can never be presented again, so its number
\* is free)
NewId(s) ==
    LET inFlight == {q \in Procs : /\ reqs[q].pc \notin {"idle", "done"}
                                   /\ reqs[q].op \in {"login", "logout"}}
        held == {cookie[t] : t \in Sessions \ {s}}
                    \cup {reqs[q].v.sessionID : q \in inFlight}
    IN  CHOOSE n \in 1..(Cardinality(held) + 1) : n \notin held

\* the session middleware (line 31) has loaded req.session before the
\* limiter and the handler run: v.sessionID is its id and v.clientId the
\* claim it carried then
LoginStart(p, s, ip, email, password) ==
    /\ Free(p)
    /\ limiter' = [limiter EXCEPT ![ip] = Hit(ip)]
    /\ LET r == Begin("login", "get",
                      [sid |-> s, sessionID |-> Loaded(s), clientId |-> session[s],
                       email |-> email, password |-> password])
       IN  Reply(p, IF Limited(Hit(ip))
                    THEN Fail(r, 429, "Too many login attempts, please try again later")
                    ELSE IF email = Missing \/ password = Missing
                    THEN Fail(r, 400, "Email and password required")
                    ELSE r)
    /\ UNCHANGED <<settled, files, lastFileId, uploads, portalFile>>
    /\ UNCHANGED <<clients, lastId, auditLogs, auditQueue, session, cookie, now, drawn, seedPending,
                   outbox>>

LoginGet(p) ==
    /\ At(p, "login", "get")
    /\ LET row == LoginSelect(reqs[p].v.email)
           r == [reqs[p] EXCEPT !.row = row]
       IN  Reply(p, IF LoginRowStatus(row) # 0
                    THEN Fail(r, LoginRowStatus(row), LoginError(LoginRowStatus(row)))
                    ELSE [r EXCEPT !.pc = "compare"])
    /\ UNCHANGED <<settled, files, lastFileId, uploads, portalFile>>
    /\ UNCHANGED <<clients, lastId, auditLogs, auditQueue, session, cookie, limiter, now, drawn,
                   seedPending, outbox>>

\* the end of the response of a request of client v.sid that has assigned
\* clientId to its req.session: the session is written back (store.set,
\* under the request's own session id) and its id sent as the cookie only
\* when the handler has changed the req.session it was given (resave:
\* false, line 34).  clientEmail goes with clientId: ids are never reused
\* (AUTOINCREMENT) and no handler changes an email, so both are the same
\* exactly when the ids are
SessionSaved(v, clientId) ==
    IF v.clientId = clientId
    THEN UNCHANGED <<session, cookie>>
    ELSE /\ session' = [session EXCEPT ![v.sid] = clientId]
         /\ cookie' = [cookie EXCEPT
                          ![v.sid] = IF v.sessionID = 0 THEN NewId(v.sid) ELSE v.sessionID]

\* faulty variant: a failed comparison that also unbinds the session
LoginCompareUnbinding(p) ==
    /\ At(p, "login", "compare")
    /\ LET r == reqs[p]
       IN  IF Compare(r.v.password, r.row.password_hash)
           THEN /\ SessionSaved(r.v, r.row.id)
                /\ Reply(p, Ok(r, LoginPayload(r.row)))
           ELSE /\ Reply(p, Fail(r, 401, LoginError(401)))
                /\ session' = [session EXCEPT ![r.v.sid] = NoClaim]
                /\ UNCHANGED cookie
    /\ UNCHANGED <<settled, files, lastFileId, uploads, portalFile>>
    /\ UNCHANGED <<clients, lastId, auditLogs, auditQueue, limiter, now, drawn, seedPending,
                   outbox>>

\* the callback of bcrypt.compare: lines 195-196 assign the claim to the
\* req.session of this request, and the session is saved as the answer is sent
LoginCompare(p) ==
    /\ At(p, "login", "compare")
    /\ LET r == reqs[p]
       IN  IF Compare(r.v.password, r.row.password_hash)
           THEN /\ SessionSaved(r.v, r.row.id)
                /\ Reply(p, Ok(r, LoginPayload(r.row)))
           ELSE /\ Reply(p, Fail(r, 401, LoginError(401)))
                /\ UNCHANGED <<session, cookie>>
    /\ UNCHANGED <<settled, files, lastFileId, uploads, portalFile>>
    /\ UNCHANGED <<clients, lastId, auditLogs, auditQueue, limiter, now, drawn, seedPending,
                   outbox>>

(* POST /api/logout, lines 202-204 *)

\* the slot of a Logout once answered: the answer and the client it came from
LoggedOut(s) ==
    [sid |-> s] @@ Ok(Begin("logout", "destroy", [sid |-> s]), [keys |-> {"ok"}])

\* the handler's turn: req.session.destroy(cb) is called on the session
\* this request was given (v.sessionID: the one loaded, or the one
\* generated for it), and the DELETE goes to the store
LogoutStart(p, s) ==
    /\ Free(p)
    /\ Reply(p, Begin("logout", "destroy",
                      [sid |-> s, sessionID |-> Loaded(s), clientId |-> session[s]]))
    /\ UNCHANGED <<settled, files, lastFileId, uploads, portalFile>>
    /\ UNCHANGED <<clients, lastId, auditLogs, auditQueue, session, cookie, limiter, now,
                   drawn, seedPending, outbox>>

\* faulty variant: the answer sent without destroying the session
LogoutDestroyKeepsSession(p) ==
    /\ At(p, "logout", "destroy")
    /\ Reply(p, LoggedOut(reqs[p].v.sid))
    /\ UNCHANGED <<settled, files, lastFileId, uploads, portalFile>>
    /\ UNCHANGED <<clients, lastId, auditLogs, auditQueue, session, cookie, limiter, now,
                   drawn, seedPending, outbox>>

\* the store has run the DELETE of that session id and the callback
\* answers: the client's cookie names no session any more if it still
\* holds that id (the cookie itself is not cleared)
LogoutDestroy(p) ==
    /\ At(p, "logout", "destroy")
    /\ LET v == reqs[p].v
       IN  /\ session' = IF v.sessionID # 0 /\ cookie[v.sid] = v.sessionID
                         THEN [session EXCEPT ![v.sid] = NoClaim]
                         ELSE session
           /\ Reply(p, LoggedOut(v.sid))
    /\ UNCHANGED <<settled, files, lastFileId, uploads, portalFile>>
    /\ UNCHANGED <<clients, lastId, auditLogs, auditQueue, cookie, limiter, now, drawn,
                   seedPending, outbox>>

(* GET /api/me, lines 206-213 *)
MeStart(p, s) ==
    /\ Free(p)
    /\ LET r == Begin("me", "get", [sid |-> s, clientId |-> session[s]])
       IN  Reply(p, IF session[s] = NoClaim
                    THEN Refuse(r, s) ELSE r)
    /\ UNCHANGED portalFile
    /\ UNCHANGED <<clients, lastId, auditLogs, auditQueue, session, cookie, limiter, now, drawn,
                   seedPending, outbox, settled, files, lastFileId, uploads>>

\* SELECT id, email, name FROM clients WHERE id = ?
MeGet(p) ==
    /\ At(p, "me", "get")
    /\ LET r == reqs[p]
           i == r.v.clientId
       IN  Reply(p, IF i \notin Ids
                    THEN Fail(r, 401, "Not authenticated")
                    ELSE Ok(r, [keys |-> {"id", "email", "name"}, id |-> i,
                                email |-> clients[i].email, name |-> clients[i].name]))
    /\ UNCHANGED portalFile
    /\ UNCHANGED <<clients, lastId, auditLogs, auditQueue, session, cookie, limiter, now, drawn,
                   seedPending, outbox, settled, files, lastFileId, uploads>>

---------------------------------------------------------------------------
(* POST /api/register, lines 216-244 *)

\* name || 'Client'
NameOrDefault(name) == IF name = Missing THEN "Client" ELSE name

RegisterStart(p, email, password, name) ==
    /\ Free(p)
    /\ IF email = Missing \/ password = Missing
       THEN /\ Reply(p, Fail(Begin("register", "start",
                                   [email |-> email, password |-> password,
                                    name |-> name]),
                             400, "Email and password required"))
            /\ UNCHANGED drawn
       ELSE /\ drawn < MaxDraws
            /\ drawn' = drawn + 1
            /\ Reply(p, Begin("register", "hash",
                              [email |-> email, password |-> password, name |-> name,
                               verificationToken |-> Hex(drawn + 1)]))
    /\ UNCHANGED <<settled, files, lastFileId, uploads, portalFile>>
    /\ UNCHANGED <<clients, lastId, auditLogs, auditQueue, session, cookie, limiter, now, seedPending,
                   outbox>>

\* the value a destructuring pattern binds to `key` (undefined when absent)
Field(body, key) == IF key \in DOMAIN body THEN body[key] ELSE Missing

\* const { email, password, name } = req.body || {}: the handler reads these
\* three keys of the body and no other
RegisterRequest(p, body) ==
    RegisterStart(p, Field(body, "email"), Field(body, "password"),
                  Field(body, "name"))

\* faulty variant: an INSERT that stores the account as already verified
RegisterRowActive(v) ==
    Row(v.email, Hash(v.password), NameOrDefault(v.name), 0, 1, v.verificationToken)

\* the row the INSERT of line 224 writes (is_admin takes the column default)
RegisterRow(v) ==
    Row(v.email, Hash(v.password), NameOrDefault(v.name), 0, 0, v.verificationToken)

\* the answer to an INSERT that the UNIQUE constraint rejects
RegisterConflict(r) ==
    Fail(r, 500, "SQLITE_CONSTRAINT: UNIQUE constraint failed: clients.email")

RegisterInsert(p) ==
    /\ At(p, "register", "hash")
    /\ LET r == reqs[p]
       IN  IF EmailTaken(r.v.email)
           THEN /\ Reply(p, RegisterConflict(r))
                /\ UNCHANGED <<clients, lastId, outbox>>
           ELSE /\ lastId < MaxClients
                /\ Insert(RegisterRow(r.v))
                /\ sendEmail(r.v.email, "Verify Your Email - Ivory Foundation Group",
                             r.v.verificationToken)
                /\ Reply(p, Ok(r, [keys |-> {"id", "email", "message"},
                                   id |-> lastId + 1, email |-> r.v.email,
                                   message |-> "Registration successful. Please check your email to verify your account."]))
    /\ UNCHANGED <<settled, files, lastFileId, uploads, portalFile>>
    /\ UNCHANGED <<auditLogs, auditQueue, session, cookie, limiter, now, drawn, seedPending>>

---------------------------------------------------------------------------
(* POST /api/verify-email, lines 381-395 *)

\* faulty variant: a lookup that finds no token once the server has been up
\* for a day
VerifySelectWithinDay(token) ==
    LET hit == {i \in Ids : clients[i].verification_token # NULL
                            /\ clients[i].verification_token = token
                            /\ now < StartTime + DayLength}
    IN  IF hit = {} THEN NoRow
        ELSE LET i == CHOOSE i \in hit : \A j \in hit : i <= j
             IN  [id |-> i, email |-> clients[i].email]

\* SELECT id, email FROM clients WHERE verification_token = ?
VerifySelect(token) ==
    LET hit == {i \in Ids : clients[i].verification_token # NULL
                            /\ clients[i].verification_token = token}
    IN  IF hit = {} THEN NoRow
        ELSE LET i == CHOOSE i \in hit : \A j \in hit : i <= j
             IN  [id |-> i, email |-> clients[i].email]

VerifyStart(p, token) ==
    /\ Free(p)
    /\ LET r == Begin("verify-email", "get", [token |-> token])
       IN  Reply(p, IF token = NULL THEN Fail(r, 400, "Token required") ELSE r)
    /\ UNCHANGED <<settled, files, lastFileId, uploads, portalFile>>
    /\ UNCHANGED <<clients, lastId, auditLogs, auditQueue, session, cookie, limiter, now, drawn,
                   seedPending, outbox>>

VerifyGet(p) ==
    /\ At(p, "verify-email", "get")
    /\ LET row == VerifySelect(reqs[p].v.token)
           r == [reqs[p] EXCEPT !.row = row]
       IN  Reply(p, IF row = NoRow
                    THEN Fail(r, 400, "Invalid or expired token")
                    ELSE [r EXCEPT !.pc = "update"])
    /\ UNCHANGED <<settled, files, lastFileId, uploads, portalFile>>
    /\ UNCHANGED <<clients, lastId, auditLogs, auditQueue, session, cookie, limiter, now, drawn,
                   seedPending, outbox>>

\* faulty variant: the UPDATE of line 389 without "verification_token = NULL"
VerifyChangesKeepToken == [is_verified |-> 1]

\* UPDATE clients SET is_verified = 1, verification_token = NULL WHERE id = ?
VerifyChanges == [is_verified |-> 1, verification_token |-> NULL]

VerifyUpdate(p) ==
    /\ At(p, "verify-email", "update")
    /\ Len(auditLogs) + Len(auditQueue) < MaxAudit
    /\ LET r == reqs[p]
       IN  /\ Update(r.row.id, VerifyChanges)
           /\ logAudit("EMAIL_VERIFIED", r.row.id, "client", r.row.id,
                       <<"Email", r.row.email, "verified">>)
           /\ Reply(p, Ok(r, [keys |-> {"ok", "message"},
                              message |-> "Email verified successfully. You can now login."]))
    /\ UNCHANGED <<settled, files, lastFileId, uploads, portalFile>>
    /\ UNCHANGED <<lastId, session, cookie, limiter, now, drawn, seedPending, outbox>>

---------------------------------------------------------------------------
(* POST /api/request-password-reset, lines 398-432 *)

ResetRequested ==
    [keys |-> {"ok", "message"},
     message |-> "If that email exists in our system, a password reset link has been sent."]

\* SELECT id, name FROM clients WHERE email = ?
RequestSelect(email) ==
    IF EmailTaken(email)
    THEN LET i == CHOOSE i \in Ids : clients[i].email = email
         IN  [id |-> i, name |-> clients[i].name]
    ELSE NoRow

\* faulty variant: an unknown email answered with an error of its own
RequestUnknownNotFound(r) == Fail(r, 404, "No account with that email")

\* line 406: the answer when no account has the email
RequestUnknown(r) == Ok(r, ResetRequested)

\* new Date(Date.now() + 1 * 60 * 60 * 1000).toISOString()
ExpiresAt(t) == ToISOString(t + ResetLifetime)

RequestResetStart(p, email) ==
    /\ Free(p)
    /\ LET r == Begin("request-password-reset", "get", [email |-> email])
       IN  Reply(p, IF email = Missing THEN Fail(r, 400, "Email required") ELSE r)
    /\ UNCHANGED <<settled, files, lastFileId, uploads, portalFile>>
    /\ UNCHANGED <<clients, lastId, auditLogs, auditQueue, session, cookie, limiter, now, drawn,
                   seedPending, outbox>>

RequestResetGet(p) ==
    /\ At(p, "request-password-reset", "get")
    /\ LET row == RequestSelect(reqs[p].v.email)
           r == [reqs[p] EXCEPT !.row = row]
       IN  IF row = NoRow
           THEN /\ Reply(p, RequestUnknown(r))
                /\ UNCHANGED drawn
           ELSE /\ drawn < MaxDraws
                /\ drawn' = drawn + 1
                /\ Reply(p, [r EXCEPT !.pc = "update",
                                      !.v = [resetToken |-> Hex(drawn + 1),
                                             expiresAt |-> ExpiresAt(now)] @@ r.v])
    /\ UNCHANGED <<settled, files, lastFileId, uploads, portalFile>>
    /\ UNCHANGED <<clients, lastId, auditLogs, auditQueue, session, cookie, limiter, now, seedPending,
                   outbox>>

\* faulty variant: the token written only when the account holds none
RequestWriteIfNone(id, v) ==
    IF id \in Ids /\ clients[id].reset_token # NULL
    THEN UNCHANGED clients
    ELSE Update(id, [reset_token |-> v.resetToken,
                     reset_token_expires |-> v.expiresAt])

\* UPDATE clients SET reset_token = ?, reset_token_expires = ? WHERE id = ?
RequestWrite(id, v) ==
    Update(id, [reset_token |-> v.resetToken, reset_token_expires |-> v.expiresAt])

RequestResetUpdate(p) ==
    /\ At(p, "request-password-reset", "update")
    /\ Len(auditLogs) + Len(auditQueue) < MaxAudit
    /\ LET r == reqs[p]
       IN  /\ RequestWrite(r.row.id, r.v)
           /\ sendEmail(r.v.email, "Password Reset - Ivory Foundation Group",
                        r.v.resetToken)
           /\ logAudit("PASSWORD_RESET_REQUESTED", r.row.id, "client", r.row.id,
                       <<"Password reset requested for", r.v.email>>)
           /\ Reply(p, Ok(r, ResetRequested))
    /\ UNCHANGED <<settled, files, lastFileId, uploads, portalFile>>
    /\ UNCHANGED <<lastId, session, cookie, limiter, now, drawn, seedPending>>

---------------------------------------------------------------------------
(* POST /api/reset-password, lines 435-452 *)

\* reset_token = ? AND reset_token_expires > datetime("now")
ResetMatches(row, token, t) ==
    /\ row.reset_token # NULL
    /\ row.reset_token = token
    /\ row.reset_token_expires # NullText
    /\ TextGreater(row.reset_token_expires, DateTimeNow(t))

\* SELECT id FROM clients WHERE reset_token = ? AND reset_token_expires > datetime("now")
ResetSelect(token) ==
    LET hit == {i \in Ids : ResetMatches(clients[i], token, now)}
    IN  IF hit = {} THEN NoRow
        ELSE [id |-> CHOOSE i \in hit : \A j \in hit : i <= j]

ResetStart(p, token, password) ==
    /\ Free(p)
    /\ LET r == Begin("reset-password", "get", [token |-> token, password |-> password])
       IN  Reply(p, IF token = NULL \/ password = Missing
                    THEN Fail(r, 400, "Token and password required") ELSE r)
    /\ UNCHANGED <<settled, files, lastFileId, uploads, portalFile>>
    /\ UNCHANGED <<clients, lastId, auditLogs, auditQueue, session, cookie, limiter, now, drawn,
                   seedPending, outbox>>

ResetGet(p) ==
    /\ At(p, "reset-password", "get")
    /\ LET row == ResetSelect(reqs[p].v.token)
           r == [reqs[p] EXCEPT !.row = row]
       IN  Reply(p, IF row = NoRow
                    THEN Fail(r, 400, "Invalid or expired token")
                    ELSE [r EXCEPT !.pc = "hash"])
    /\ UNCHANGED <<settled, files, lastFileId, uploads, portalFile>>
    /\ UNCHANGED <<clients, lastId, auditLogs, auditQueue, session, cookie, limiter, now, drawn,
                   seedPending, outbox>>

\* faulty variant: an UPDATE that also marks the account verified
ResetChangesActivating(password) ==
    [password_hash |-> Hash(password), reset_token |-> NULL,
     reset_token_expires |-> NullText, is_verified |-> 1]

\* UPDATE clients SET password_hash = ?, reset_token = NULL,
\*   reset_token_expires = NULL WHERE id = ?
ResetChanges(password) ==
    [password_hash |-> Hash(password), reset_token |-> NULL,
     reset_token_expires |-> NullText]

ResetUpdate(p) ==
    /\ At(p, "reset-password", "hash")
    /\ Len(auditLogs) + Len(auditQueue) < MaxAudit
    /\ LET r == reqs[p]
       IN  /\ Update(r.row.id, ResetChanges(r.v.password))
           /\ logAudit("PASSWORD_RESET_COMPLETED", r.row.id, "client", r.row.id,
                       <<"Password successfully reset">>)
           /\ Reply(p, Ok(r, [keys |-> {"ok", "message"},
                              message |-> "Password reset successfully. You can now login."]))
    /\ UNCHANGED <<settled, files, lastFileId, uploads, portalFile>>
    /\ UNCHANGED <<lastId, session, cookie, limiter, now, drawn, seedPending, outbox>>

---------------------------------------------------------------------------
(* Admin: DELETE /api/users/:id, lines 311-329; PATCH /api/users/:id, 332-355 *)

NaN == -1

Digits == <<"0", "1", "2", "3", "4", "5", "6", "7", "8", "9">>

IsDigit(c) == \E d \in 1..10 : Digits[d] = c

DigitValue(c) == (CHOOSE d \in 1..10 : Digits[d] = c) - 1

\* the leading decimal digits of a string
RECURSIVE LeadingDigits(_)
LeadingDigits(str) ==
    IF str = <<>> \/ ~IsDigit(Head(str)) THEN <<>>
    ELSE <<Head(str)>> \o LeadingDigits(Tail(str))

RECURSIVE DecimalValue(_, _)
DecimalValue(digits, acc) ==
    IF digits = <<>> THEN acc
    ELSE DecimalValue(Tail(digits), 10 * acc + DigitValue(Head(digits)))

\* parseInt(str, 10), for a string of characters without sign or blanks
ParseInt(str) ==
    IF LeadingDigits(str) = <<>> THEN NaN ELSE DecimalValue(LeadingDigits(str), 0)

\* SELECT is_admin FROM clients WHERE id = ?
AdminSelect(clientId) ==
    IF clientId \in Ids THEN [is_admin |-> clients[clientId].is_admin] ELSE NoRow

\* faulty variant: the admin gate without the self-target test of lines 318 and 339
AdminGateNoSelf(row, id, clientId) ==
    IF row = NoRow \/ row.is_admin = 0 THEN 403 ELSE 0

\* faulty variant: the admin gate passing every caller whose account exists
AdminGateTrusting(row, id, clientId) ==
    IF row = NoRow THEN 403
    ELSE IF id = clientId THEN 400
    ELSE 0

\* the status the admin gate answers with (0: go on)
AdminGate(row, id, clientId) ==
    IF row = NoRow \/ row.is_admin = 0 THEN 403
    ELSE IF id = clientId THEN 400
    ELSE 0

AdminGateError(status, selfError) == IF status = 403 THEN "Admin only" ELSE selfError

SelfError(op) ==
    IF op = "delete-user" THEN "Cannot delete yourself"
    ELSE "Cannot change your own admin role"

\* both handlers up to the session check of lines 312 and 333
AdminStart(p, op, s, param) ==
    /\ Free(p)
    /\ LET r == Begin(op, "admin", [sid |-> s, param |-> param,
                                    clientId |-> session[s]])
       IN  Reply(p, IF session[s] = NoClaim
                    THEN Refuse(r, s) ELSE r)
    /\ UNCHANGED <<settled, files, lastFileId, uploads, portalFile>>
    /\ UNCHANGED <<clients, lastId, auditLogs, auditQueue, session, cookie, limiter, now, drawn,
                   seedPending, outbox>>

\* both handlers' first callback: the admin check and the self-target check
AdminCheck(p, op) ==
    /\ At(p, op, "admin")
    /\ LET r == reqs[p]
           id == ParseInt(r.v.param)
           status == AdminGate(AdminSelect(r.v.clientId), id, r.v.clientId)
       IN  Reply(p, IF status # 0
                    THEN Fail(r, status, AdminGateError(status, SelfError(op)))
                    ELSE [r EXCEPT !.pc = "target", !.v = [id |-> id] @@ r.v])
    /\ UNCHANGED <<settled, files, lastFileId, uploads, portalFile>>
    /\ UNCHANGED <<clients, lastId, auditLogs, auditQueue, session, cookie, limiter, now, drawn,
                   seedPending, outbox>>

DeleteStart(p, s, param) == AdminStart(p, "delete-user", s, param)

DeleteCheck(p) == AdminCheck(p, "delete-user")

\* SELECT email FROM clients WHERE id = ?
DeleteGet(p) ==
    /\ At(p, "delete-user", "target")
    /\ LET r == reqs[p]
           row == IF r.v.id \in Ids THEN [email |-> clients[r.v.id].email] ELSE NoRow
       IN  Reply(p, IF row = NoRow
                    THEN Fail(r, 404, "User not found")
                    ELSE [r EXCEPT !.pc = "run", !.row = row])
    /\ UNCHANGED <<settled, files, lastFileId, uploads, portalFile>>
    /\ UNCHANGED <<clients, lastId, auditLogs, auditQueue, session, cookie, limiter, now, drawn,
                   seedPending, outbox>>

\* DELETE FROM clients WHERE id = ?
DeleteRun(p) ==
    /\ At(p, "delete-user", "run")
    /\ Len(auditLogs) + Len(auditQueue) < MaxAudit
    /\ LET r == reqs[p]
       IN  /\ clients' = [i \in Ids \ {r.v.id} |-> clients[i]]
           /\ logAudit("USER_DELETED", r.v.clientId, "client", r.v.id,
                       <<"User", r.row.email, "deleted">>)
           /\ Reply(p, Ok(r, [keys |-> {"ok"}]))
    /\ UNCHANGED <<settled, files, lastFileId, uploads, portalFile>>
    /\ UNCHANGED <<lastId, session, cookie, limiter, now, drawn, seedPending, outbox>>

\* faulty variant: the handler granting the role whatever the target's flag is
NewAdminStatusGrant(isAdmin) == 1

\* line 343: targetRow.is_admin ? 0 : 1
NewAdminStatus(isAdmin) == IF isAdmin # 0 THEN 0 ELSE 1

\* faulty variant: one action kind for both directions of the change
PatchActionRoleChanged(newAdminStatus) == "USER_ROLE_CHANGED"

\* line 348: newAdminStatus ? 'USER_PROMOTED' : 'USER_DEMOTED'
PatchAction(newAdminStatus) ==
    IF newAdminStatus # 0 THEN "USER_PROMOTED" ELSE "USER_DEMOTED"

PatchStart(p, s, param) == AdminStart(p, "patch-user", s, param)

PatchCheck(p) == AdminCheck(p, "patch-user")

\* SELECT is_admin, email FROM clients WHERE id = ?
PatchGet(p) ==
    /\ At(p, "patch-user", "target")
    /\ LET r == reqs[p]
           row == IF r.v.id \in Ids
                  THEN [is_admin |-> clients[r.v.id].is_admin,
                        email |-> clients[r.v.id].email]
                  ELSE NoRow
       IN  Reply(p, IF row = NoRow
                    THEN Fail(r, 404, "User not found")
                    ELSE [r EXCEPT !.pc = "run", !.row = row,
                                   !.v = [newAdminStatus |->
                                             NewAdminStatus(row.is_admin)] @@ r.v])
    /\ UNCHANGED <<settled, files, lastFileId, uploads, portalFile>>
    /\ UNCHANGED <<clients, lastId, auditLogs, auditQueue, session, cookie, limiter, now, drawn,
                   seedPending, outbox>>

\* UPDATE clients SET is_admin = ? WHERE id = ?
PatchRun(p) ==
    /\ At(p, "patch-user", "run")
    /\ Update(reqs[p].v.id, [is_admin |-> reqs[p].v.newAdminStatus])
    /\ Reply(p, [reqs[p] EXCEPT !.pc = "reread"])
    /\ UNCHANGED <<settled, files, lastFileId, uploads, portalFile>>
    /\ UNCHANGED <<lastId, auditLogs, auditQueue, session, cookie, limiter, now, drawn, seedPending,
                   outbox>>

\* SELECT id, email, name, is_admin FROM clients WHERE id = ?, then the answer
PatchReread(p) ==
    /\ At(p, "patch-user", "reread")
    /\ Len(auditLogs) + Len(auditQueue) < MaxAudit
    /\ LET r == reqs[p]
       IN  /\ logAudit(PatchAction(r.v.newAdminStatus),
                       r.v.clientId, "client", r.v.id,
                       <<"User", r.row.email, "role changed to",
                         IF r.v.newAdminStatus # 0 THEN "admin" ELSE "client">>)
           /\ Reply(p, Ok(r, IF r.v.id \in Ids
                             THEN [keys |-> {"id", "email", "name", "is_admin"},
                                   id |-> r.v.id, email |-> clients[r.v.id].email,
                                   name |-> clients[r.v.id].name,
                                   is_admin |-> clients[r.v.id].is_admin]
                             ELSE NoBody))
    /\ UNCHANGED <<settled, files, lastFileId, uploads, portalFile>>
    /\ UNCHANGED <<clients, lastId, session, cookie, limiter, now, drawn, seedPending, outbox>>

---------------------------------------------------------------------------
(* Admin: GET /api/users, lines 273-283; GET /api/audit-logs, lines 455-466 *)

LogLimit == 100           \* LIMIT 100

\* a route without :id segment
NoParam == <<>>

\* the first n elements of a sequence (all of them when it has fewer)
Take(seq, n) == SubSeq(seq, 1, Min(n, Len(seq)))

\* the ids of a set in ascending order
RECURSIVE Ascending(_)
Ascending(S) ==
    IF S = {} THEN <<>>
    ELSE LET m == CHOOSE x \in S : \A y \in S : x <= y
         IN  <<m>> \o Ascending(S \ {m})

\* both handlers' first callback: the admin check of lines 277 and 459
ListCheck(p, op) ==
    /\ At(p, op, "admin")
    /\ LET r == reqs[p]
           row == AdminSelect(r.v.clientId)
       IN  Reply(p, IF row = NoRow \/ row.is_admin = 0
                    THEN Fail(r, 403, "Admin only")
                    ELSE [r EXCEPT !.pc = "all"])
    /\ UNCHANGED <<clients, lastId, auditLogs, auditQueue, session, cookie, limiter, now, drawn,
                   seedPending, outbox, settled, files, lastFileId, uploads,
                   portalFile>>

UsersStart(p, s) == AdminStart(p, "users", s, NoParam)

UsersCheck(p) == ListCheck(p, "users")

\* faulty variant: SELECT * FROM clients ORDER BY id
UsersRowsAllColumns ==
    [k \in 1..Cardinality(Ids) |->
        LET i == Ascending(Ids)[k] IN [id |-> i] @@ clients[i]]

\* SELECT id, email, name, is_admin FROM clients ORDER BY id
UsersRows ==
    [k \in 1..Cardinality(Ids) |->
        LET i == Ascending(Ids)[k]
        IN  [id |-> i, email |-> clients[i].email, name |-> clients[i].name,
             is_admin |-> clients[i].is_admin]]

UsersAll(p) ==
    /\ At(p, "users", "all")
    /\ Reply(p, Ok(reqs[p], [keys |-> {"rows"}, rows |-> UsersRows]))
    /\ UNCHANGED <<clients, lastId, auditLogs, auditQueue, session, cookie, limiter, now, drawn,
                   seedPending, outbox, settled, files, lastFileId, uploads,
                   portalFile>>

AuditLogsStart(p, s) == AdminStart(p, "audit-logs", s, NoParam)

AuditLogsCheck(p) == ListCheck(p, "audit-logs")

\* the row of audit_logs with id k, as the SELECT of line 461 returns it
AuditRow(k) == [id |-> k] @@ auditLogs[k]

\* ORDER BY timestamp DESC: the orders of the rows' ids that the clause
\* allows; it says nothing about rows of equal timestamp
AuditOrders ==
    {ord \in [1..Len(auditLogs) -> 1..Len(auditLogs)] :
        /\ \A j, k \in 1..Len(auditLogs) : j # k => ord[j] # ord[k]
        /\ \A j, k \in 1..Len(auditLogs) :
              j < k => auditLogs[ord[j]].timestamp >= auditLogs[ord[k]].timestamp}

\* ... ORDER BY timestamp DESC LIMIT 100, in the order ord
AuditRows(ord) == Take([k \in 1..Len(auditLogs) |-> AuditRow(ord[k])], LogLimit)

AuditLogsAll(p) ==
    /\ At(p, "audit-logs", "all")
    /\ \E ord \in AuditOrders :
          Reply(p, Ok(reqs[p], [keys |-> {"rows"}, rows |-> AuditRows(ord)]))
    /\ UNCHANGED <<clients, lastId, auditLogs, auditQueue, session, cookie, limiter, now, drawn,
                   seedPending, outbox, settled, files, lastFileId, uploads,
                   portalFile>>

---------------------------------------------------------------------------
(* POST /api/upload, lines 247-261, behind multer's upload.single('file') *)

\* the characters the filename function of line 55 keeps
SafeChars ==
    {"a", "b", "c", "d", "e", "f", "g", "h", "i", "j", "k", "l", "m", "n", "o",
     "p", "q", "r", "s", "t", "u", "v", "w", "x", "y", "z",
     "A", "B", "C", "D", "E", "F", "G", "H", "I", "J", "K", "L", "M", "N", "O",
     "P", "Q", "R", "S", "T", "U", "V", "W", "X", "Y", "Z",
     "0", "1", "2", "3", "4", "5", "6", "7", "8", "9", ".", "-", "_"}

\* originalname.replace(/[^a-zA-Z0-9.\-_]/g, '_')
Sanitize(name) ==
    [k \in DOMAIN name |-> IF name[k] \in SafeChars THEN name[k] ELSE "_"]

\* Date.now() + '-' + the sanitized name (two uploads of one name at one
\* reading of the clock get one name)
StoredName(t, originalname) == <<t, "-">> \o Sanitize(originalname)

\* a request without a part named 'file'
NoFile == [nofile |-> TRUE]

\* req.file as multer leaves it once the part is on disk
ReqFile(part, t) ==
    IF part = NoFile THEN NoFile
    ELSE [filename |-> StoredName(t, part.originalname),
          originalname |-> part.originalname, mimetype |-> part.mimetype,
          path |-> <<"protected", "uploads", StoredName(t, part.originalname)>>]

\* the request has arrived: the session middleware of line 31 has loaded
\* req.session, and upload.single('file') waits for the body
UploadStart(p, s, part) ==
    /\ Free(p)
    /\ Reply(p, Begin("upload", "part",
                      [sid |-> s, clientId |-> session[s], part |-> part]))
    /\ UNCHANGED portalFile
    /\ UNCHANGED <<clients, lastId, auditLogs, auditQueue, session, cookie, limiter, now, drawn,
                   seedPending, outbox, settled, files, lastFileId, uploads>>

\* the body has arrived: multer's disk storage names and writes the file,
\* then the handler runs up to the session check of line 248, on the
\* req.session that was loaded when the request arrived
UploadStore(p) ==
    /\ At(p, "upload", "part")
    /\ LET r == reqs[p]
           part == r.v.part
       IN  /\ uploads' = IF part = NoFile THEN uploads
                         ELSE uploads \cup {StoredName(now, part.originalname)}
           /\ Reply(p, IF r.v.clientId = NoClaim
                        THEN Fail(r, 401, "Not authenticated")
                        ELSE [r EXCEPT !.pc = "admin",
                                       !.v = [file |-> ReqFile(part, now)] @@ r.v])
    /\ UNCHANGED portalFile
    /\ UNCHANGED <<clients, lastId, auditLogs, auditQueue, session, cookie, limiter, now, drawn,
                   seedPending, outbox, settled, files, lastFileId>>

\* the callback of line 250: the admin check, then the file check
UploadCheck(p) ==
    /\ At(p, "upload", "admin")
    /\ LET r == reqs[p]
           row == AdminSelect(r.v.clientId)
       IN  Reply(p, IF row = NoRow \/ row.is_admin = 0
                    THEN Fail(r, 403, "Admin only")
                    ELSE IF r.v.file = NoFile
                    THEN Fail(r, 400, "No file uploaded")
                    ELSE [r EXCEPT !.pc = "insert"])
    /\ UNCHANGED portalFile
    /\ UNCHANGED <<clients, lastId, auditLogs, auditQueue, session, cookie, limiter, now, drawn,
                   seedPending, outbox, settled, files, lastFileId, uploads>>

\* INSERT INTO files (filename, originalname, mimetype, path, uploaded_by)
UploadInsert(p) ==
    /\ At(p, "upload", "insert")
    /\ lastFileId < MaxFiles
    /\ Len(auditLogs) + Len(auditQueue) < MaxAudit
    /\ LET r == reqs[p]
       IN  /\ files' = [i \in DOMAIN files \cup {lastFileId + 1} |->
                          IF i = lastFileId + 1
                          THEN [filename |-> r.v.file.filename,
                                originalname |-> r.v.file.originalname,
                                mimetype |-> r.v.file.mimetype,
                                path |-> r.v.file.path,
                                uploaded_by |-> r.v.clientId, uploaded_at |-> now]
                          ELSE files[i]]
           /\ lastFileId' = lastFileId + 1
           /\ logAudit("FILE_UPLOADED", r.v.clientId, "file", lastFileId + 1,
                       <<"File", r.v.file.originalname, "uploaded">>)
           /\ Reply(p, Ok(r, [keys |-> {"ok", "id"}, id |-> lastFileId + 1]))
    /\ UNCHANGED portalFile
    /\ UNCHANGED <<clients, lastId, session, cookie, limiter, now, drawn, seedPending,
                   outbox, settled, uploads>>

---------------------------------------------------------------------------
(* Admin: DELETE /api/files/:id, lines 286-308 *)

\* the characters SQLite skips around a numeric text
RECURSIVE Pow10(_)
Pow10(n) == IF n = 0 THEN 1 ELSE 10 * Pow10(n - 1)

\* a text bound to "WHERE id = ?" on an INTEGER PRIMARY KEY: the column's
\* affinity turns a text that is a well-formed numeric literal (blanks
\* around it, a sign, digits, a fraction, an exponent) into its number, and
\* the number equals an id only when it is an integer (none of more than
\* nine digits is modelled); any other text stays a text and equals no id
\* (the blanks are those of sqlite3Isspace: space, tab, line feed, vertical
\* tab, form feed and carriage return; the vertical tab, character 11, is
\* written as the character itself in the set below)
ColumnInteger(str) ==
    LET spaces == {" ", "\t", "\n", "", "\f", "\r"}
        inked == {k \in 1..Len(str) : str[k] \notin spaces}
        body == IF inked = {} THEN <<>>
                ELSE SubSeq(str, CHOOSE k \in inked : \A j \in inked : k <= j,
                                 CHOOSE k \in inked : \A j \in inked : k >= j)
        Drop(x, n) == SubSeq(x, n + 1, Len(x))
        Unsigned(x) == IF x # <<>> /\ Head(x) \in {"+", "-"} THEN Tail(x) ELSE x
        negative == body # <<>> /\ Head(body) = "-"
        digits == Unsigned(body)
        intPart == LeadingDigits(digits)
        rest1 == Drop(digits, Len(intPart))
        hasDot == rest1 # <<>> /\ Head(rest1) = "."
        frac == IF hasDot THEN LeadingDigits(Tail(rest1)) ELSE <<>>
        rest2 == IF hasDot THEN Drop(Tail(rest1), Len(frac)) ELSE rest1
        hasExp == rest2 # <<>> /\ Head(rest2) \in {"e", "E"}
        expBody == IF hasExp THEN Unsigned(Tail(rest2)) ELSE <<>>
        expNegative == hasExp /\ Tail(rest2) # <<>> /\ Head(Tail(rest2)) = "-"
        expDigits == LeadingDigits(expBody)
        wellFormed ==
            /\ intPart # <<>> \/ frac # <<>>
            /\ IF hasExp THEN expDigits # <<>> /\ expDigits = expBody
                         ELSE rest2 = <<>>
        mantissa == DecimalValue(intPart \o frac, 0)
        exponent == IF hasExp
                    THEN (IF expNegative THEN -1 ELSE 1) * DecimalValue(expDigits, 0)
                    ELSE 0
        scale == exponent - Len(frac)
        magnitude ==
            IF mantissa = 0 THEN 0
            ELSE IF scale >= 0
            THEN (IF scale > 9 THEN NaN ELSE mantissa * Pow10(scale))
            ELSE IF -scale > 9 \/ mantissa % Pow10(-scale) # 0 THEN NaN
            ELSE mantissa \div Pow10(-scale)
    IN  IF ~wellFormed \/ magnitude = NaN THEN NaN
        ELSE IF negative THEN -magnitude ELSE magnitude

\* SELECT path, originalname FROM files WHERE id = ?
FileSelect(id) ==
    IF id \in DOMAIN files
    THEN [path |-> files[id].path, originalname |-> files[id].originalname]
    ELSE NoRow

\* the handler up to the session check of line 287
FileDeleteStart(p, s, param) ==
    /\ Free(p)
    /\ LET r == Begin("delete-file", "admin",
                      [sid |-> s, param |-> param, clientId |-> session[s]])
       IN  Reply(p, IF session[s] = NoClaim
                    THEN Refuse(r, s) ELSE r)
    /\ UNCHANGED <<settled, files, lastFileId, uploads, portalFile>>
    /\ UNCHANGED <<clients, lastId, auditLogs, auditQueue, session, cookie, limiter, now, drawn,
                   seedPending, outbox>>

\* the callback of line 289: the admin check
FileDeleteCheck(p) ==
    /\ At(p, "delete-file", "admin")
    /\ LET r == reqs[p]
           row == AdminSelect(r.v.clientId)
       IN  Reply(p, IF row = NoRow \/ row.is_admin = 0
                    THEN Fail(r, 403, "Admin only")
                    ELSE [r EXCEPT !.pc = "file",
                                   !.v = [id |-> ColumnInteger(r.v.param)] @@ r.v])
    /\ UNCHANGED <<settled, files, lastFileId, uploads, portalFile>>
    /\ UNCHANGED <<clients, lastId, auditLogs, auditQueue, session, cookie, limiter, now, drawn,
                   seedPending, outbox>>

\* the callback of line 293: the file's row
FileDeleteGet(p) ==
    /\ At(p, "delete-file", "file")
    /\ LET r == reqs[p]
           fileRow == FileSelect(r.v.id)
       IN  Reply(p, IF fileRow = NoRow
                    THEN Fail(r, 404, "Not found")
                    ELSE [r EXCEPT !.pc = "unlink", !.row = fileRow])
    /\ UNCHANGED <<settled, files, lastFileId, uploads, portalFile>>
    /\ UNCHANGED <<clients, lastId, auditLogs, auditQueue, session, cookie, limiter, now, drawn,
                   seedPending, outbox>>

\* fs.unlink(filePath, ...): a file that is not there is an error, ignored
FileDeleteUnlink(p) ==
    /\ At(p, "delete-file", "unlink")
    /\ uploads' = uploads \ {reqs[p].row.path[3]}
    /\ Reply(p, [reqs[p] EXCEPT !.pc = "run"])
    /\ UNCHANGED portalFile
    /\ UNCHANGED <<clients, lastId, auditLogs, auditQueue, session, cookie, limiter, now, drawn,
                   seedPending, outbox, settled, files, lastFileId>>

\* DELETE FROM files WHERE id = ?, then the audit entry and the answer
FileDeleteRun(p) ==
    /\ At(p, "delete-file", "run")
    /\ Len(auditLogs) + Len(auditQueue) < MaxAudit
    /\ LET r == reqs[p]
       IN  /\ files' = [i \in DOMAIN files \ {r.v.id} |-> files[i]]
           /\ logAudit("FILE_DELETED", r.v.clientId, "file", r.v.id,
                       <<"File", r.row.originalname, "deleted">>)
           /\ Reply(p, Ok(r, [keys |-> {"ok"}]))
    /\ UNCHANGED portalFile
    /\ UNCHANGED <<clients, lastId, session, cookie, limiter, now, drawn, seedPending,
                   outbox, settled, lastFileId, uploads>>

---------------------------------------------------------------------------
(* GET /api/files, lines 264-270; GET /protected-files/:id, lines 358-368;
   GET /portal, lines 371-378 *)

\* the handler up to the session check of line 265
FilesStart(p, s) ==
    /\ Free(p)
    /\ LET r == Begin("files", "all", [sid |-> s, clientId |-> session[s]])
       IN  Reply(p, IF session[s] = NoClaim
                    THEN Refuse(r, s) ELSE r)
    /\ UNCHANGED portalFile
    /\ UNCHANGED <<clients, lastId, auditLogs, auditQueue, session, cookie, limiter, now, drawn,
                   seedPending, outbox, settled, files, lastFileId, uploads>>

\* SELECT id, originalname, mimetype, uploaded_at FROM files
FilesRow(k) ==
    [id |-> k, originalname |-> files[k].originalname,
     mimetype |-> files[k].mimetype, uploaded_at |-> files[k].uploaded_at]

\* ORDER BY uploaded_at DESC: the sequences of the files' ids that the clause
\* allows; it says nothing about rows of equal uploaded_at
FilesOrders ==
    {ord \in [1..Cardinality(DOMAIN files) -> DOMAIN files] :
        /\ \A j, k \in DOMAIN ord : j # k => ord[j] # ord[k]
        /\ \A j, k \in DOMAIN ord :
              j < k => files[ord[j]].uploaded_at >= files[ord[k]].uploaded_at}

\* the callback of line 266: every file's row, whoever asks
FilesAll(p) ==
    /\ At(p, "files", "all")
    /\ \E ord \in FilesOrders :
          Reply(p, Ok(reqs[p], [keys |-> {"rows"},
                                rows |-> [k \in DOMAIN ord |-> FilesRow(ord[k])]]))
    /\ UNCHANGED portalFile
    /\ UNCHANGED <<clients, lastId, auditLogs, auditQueue, session, cookie, limiter, now, drawn,
                   seedPending, outbox, settled, files, lastFileId, uploads>>

\* the handler up to the session check of line 359
DownloadStart(p, s, param) ==
    /\ Free(p)
    /\ LET r == Begin("download", "get",
                      [sid |-> s, clientId |-> session[s],
                       id |-> ColumnInteger(param)])
       IN  Reply(p, IF session[s] = NoClaim
                    THEN Refuse(r, s) ELSE r)
    /\ UNCHANGED portalFile
    /\ UNCHANGED <<clients, lastId, auditLogs, auditQueue, session, cookie, limiter, now, drawn,
                   seedPending, outbox, settled, files, lastFileId, uploads>>

\* row.mimetype || 'application/octet-stream'
ContentType(mimetype) ==
    IF mimetype = Missing THEN "application/octet-stream" ELSE mimetype

\* row.originalname.replace(/\"/g, '')
Unquoted(name) == SelectSeq(name, LAMBDA c : c # "\"")

\* SELECT path, originalname, mimetype FROM files WHERE id = ? and its
\* callback: the file's row and the two headers
DownloadGet(p) ==
    /\ At(p, "download", "get")
    /\ LET r == reqs[p]
           row == IF r.v.id \in DOMAIN files
                  THEN [path |-> files[r.v.id].path,
                        originalname |-> files[r.v.id].originalname,
                        mimetype |-> files[r.v.id].mimetype]
                  ELSE NoRow
       IN  Reply(p, IF row = NoRow
                    THEN Fail(r, 404, "Not found")
                    ELSE [r EXCEPT !.pc = "send", !.row = row])
    /\ UNCHANGED portalFile
    /\ UNCHANGED <<clients, lastId, auditLogs, auditQueue, session, cookie, limiter, now, drawn,
                   seedPending, outbox, settled, files, lastFileId, uploads>>

\* res.sendFile(row.path): the file is looked for on disk in a later turn,
\* and the answer is 404 when it is not there
DownloadSend(p) ==
    /\ At(p, "download", "send")
    /\ LET r == reqs[p]
       IN  Reply(p, IF r.row.path[3] \notin uploads
                    THEN Fail(r, 404, "Not Found")
                    ELSE Ok(r, [keys |-> {"file"}, file |-> r.row.path,
                                mimetype |-> ContentType(r.row.mimetype),
                                originalname |-> Unquoted(r.row.originalname)]))
    /\ UNCHANGED portalFile
    /\ UNCHANGED <<clients, lastId, auditLogs, auditQueue, session, cookie, limiter, now, drawn,
                   seedPending, outbox, settled, files, lastFileId, uploads>>

\* res.redirect('/clients.html')
Redirect(r, location) ==
    [op |-> r.op, pc |-> "done", status |-> 302, error |-> "",
     body |-> [keys |-> {"location"}, location |-> location]]

\* the whole handler: the session check, the page written when it is not
\* there yet, and the page sent
Portal(p, s) ==
    /\ Free(p)
    /\ LET r == Begin("portal", "start", [sid |-> s])
       IN  IF session[s] = NoClaim
           THEN /\ Reply(p, [sid |-> s] @@ Redirect(r, "/clients.html"))
                /\ UNCHANGED portalFile
           ELSE /\ portalFile' = TRUE
                /\ Reply(p, [sid |-> s]
                             @@ Ok(r, [keys |-> {"file"},
                                       file |-> <<"protected", "clients-protected.html">>]))
    /\ UNCHANGED <<clients, lastId, auditLogs, auditQueue, session, cookie, limiter, now, drawn,
                   seedPending, outbox, settled, files, lastFileId, uploads>>

---------------------------------------------------------------------------
(* The system *)

Tokens == 0..MaxDraws

\* the id the seeded account `which` holds: the order of the two seed
\* inserts shows in the rows as long as one of them is left
SeedId(which) ==
    LET other == IF which = "client" THEN "admin" ELSE "client"
        Holds(i, w) == i \in Ids /\ clients[i].email = SeedRow(w).email
    IN  IF \E i \in {1, 2} : Holds(i, which)
        THEN CHOOSE i \in {1, 2} : Holds(i, which)
        ELSE IF \E i \in {1, 2} : Holds(i, other)
             THEN 3 - (CHOOSE i \in {1, 2} : Holds(i, other))
             ELSE 1

\* the :id segment that names the seeded account `which`
SeedParam(which) == <<Digits[SeedId(which) + 1]>>

\* values of the :id segment of /api/users/:id
Params == {<<"1">>, <<"2">>, <<"2", "x">>, <<"x">>}

\* a JSON body with the given email and password (a Missing one is left
\* out) and the keys of `extras`, each with the value 1
Body(e, pw, extras) ==
    [k \in {x \in {"email"} : e # Missing} \cup {x \in {"password"} : pw # Missing}
            \cup extras |->
        CASE k = "email" -> e
          [] k = "password" -> pw
          [] OTHER -> 1]

\* bodies sent to the register endpoint, some claiming flags for the account
RegisterBodies ==
    {Body(e, pw, x) : e \in {"a@x.com", "client@ivory.example", Missing},
                      pw \in {"Pw123!", Missing},
                      x \in {{}, {"is_admin", "is_verified"}}}

\* no audit INSERT is waiting at the store.  An INSERT of logAudit shares
\* no data with the handlers but the clock it reads and the table the
\* audit listing reads, so a scenario that lets it run before the next
\* request arrives loses no outcome of the other handlers
Quiet == auditQueue = <<>>

\* no request is between its arrival and its answer.  With one request at
\* a time, the clock is read in one step of a handler only, so time that
\* passes inside a request is time that passed before it
AtRest == \A p \in Procs : reqs[p].pc \in {"idle", "done"}

\* the account lifecycle, one request at a time
Next ==
    \/ \E w \in {"client", "admin"} : Seed(w)
    \/ /\ Quiet
       /\ \E body \in RegisterBodies : RegisterRequest("r1", body)
    \/ RegisterInsert("r1")
    \/ /\ Quiet
       /\ \E t \in Tokens : VerifyStart("r1", t)
    \/ VerifyGet("r1")
    \/ VerifyUpdate("r1")
    \/ /\ Quiet
       /\ \E e \in Emails \cup {Missing}, pw \in {"Pw123!", "ChangeMe123!", Missing} :
             LoginStart("r1", "s1", "10.0.0.1", e, pw)
    \/ LoginGet("r1")
    \/ LoginCompare("r1")
    \/ /\ Quiet
       /\ LogoutStart("r1", "s1")
    \/ LogoutDestroy("r1")
    \/ \E k \in 1..Len(auditQueue) : AuditInsert(k, "written")

Spec == Init /\ [][Next]_vars

\* password reset while time passes, one request at a time
NextReset ==
    \/ /\ Quiet
       /\ AtRest
       /\ Tick
    \/ /\ Quiet
       /\ \E e \in {"client@ivory.example", "a@x.com", Missing} :
             RequestResetStart("r1", e)
    \/ RequestResetGet("r1")
    \/ RequestResetUpdate("r1")
    \/ /\ Quiet
       /\ \E t \in Tokens, pw \in {"Pw123!", Missing} : ResetStart("r1", t, pw)
    \/ ResetGet("r1")
    \/ ResetUpdate("r1")
    \/ \E k \in 1..Len(auditQueue) : AuditInsert(k, "written")

SpecReset == InitSeeded /\ [][NextReset]_vars

\* two password-reset requests in flight at once
NextResetRace ==
    \/ \E p \in Procs : RequestResetStart(p, "client@ivory.example")
    \/ \E p \in Procs : RequestResetGet(p)
    \/ \E p \in Procs : RequestResetUpdate(p)
    \/ \E p \in Procs, t \in 1..MaxDraws, pw \in {"Pw123!", "AdminChangeMe!"} :
          ResetStart(p, t, pw)
    \/ \E p \in Procs : ResetGet(p)
    \/ \E p \in Procs : ResetUpdate(p)
    \/ \E k \in 1..Len(auditQueue) : AuditInsert(k, "written")

SpecResetRace == InitSeeded /\ [][NextResetRace]_vars

\* user management by whoever is logged in, one request at a time
NextAdmin ==
    \/ /\ Quiet
       /\ \E s \in Sessions, c \in {"client", "admin"} :
             LoginStart("r1", s, "10.0.0.1", SeedRow(c).email, SeedRow(c).password)
    \/ LoginGet("r1")
    \/ LoginCompare("r1")
    \/ /\ Quiet
       /\ \E s \in Sessions, x \in Params : DeleteStart("r1", s, x)
    \/ DeleteCheck("r1")
    \/ DeleteGet("r1")
    \/ DeleteRun("r1")
    \/ /\ Quiet
       /\ \E s \in Sessions, x \in Params : PatchStart("r1", s, x)
    \/ PatchCheck("r1")
    \/ PatchGet("r1")
    \/ PatchRun("r1")
    \/ PatchReread("r1")
    \/ /\ Quiet
       /\ \E s \in Sessions : LogoutStart("r1", s)
    \/ LogoutDestroy("r1")
    \/ /\ Quiet
       /\ \E s \in Sessions : MeStart("r1", s)
    \/ MeGet("r1")
    \/ /\ Quiet
       /\ \E s \in Sessions : UsersStart("r1", s)
    \/ UsersCheck("r1")
    \/ UsersAll("r1")
    \/ /\ Quiet
       /\ \E s \in Sessions : AuditLogsStart("r1", s)
    \/ AuditLogsCheck("r1")
    \/ AuditLogsAll("r1")
    \/ \E k \in 1..Len(auditQueue) : AuditInsert(k, "written")

SpecAdmin == InitProvisioned /\ [][NextAdmin]_vars

\* a@x.com has been registered and verified
Enrolled == \E i \in Ids : clients[i].email = "a@x.com" /\ clients[i].is_verified = 1

\* a@x.com is registered and verified, then logs in from two addresses
\* while time passes
NextLimiter ==
    \/ /\ Enrolled /\ Quiet
       /\ Tick
    \/ /\ ~Enrolled
       /\ RegisterStart("r1", "a@x.com", "Pw123!", Missing)
    \/ RegisterInsert("r1")
    \/ /\ ~Enrolled
       /\ \E t \in 1..MaxDraws : VerifyStart("r1", t)
    \/ VerifyGet("r1")
    \/ VerifyUpdate("r1")
    \/ /\ Enrolled /\ Quiet
       /\ \E ip \in Addrs, pw \in {"Pw123!", "Pw124!"} :
             LoginStart("r1", "s1", ip, "a@x.com", pw)
    \/ LoginGet("r1")
    \/ LoginCompare("r1")
    \/ /\ Enrolled /\ Quiet
       /\ LogoutStart("r1", "s1")
    \/ LogoutDestroy("r1")
    \/ \E k \in 1..Len(auditQueue) : AuditInsert(k, "written")

SpecLimiter == InitSeeded /\ [][NextLimiter]_vars

\* the parts named 'file' that upload requests carry
Parts == {NoFile,
          [originalname |-> <<"s", "p", "e", "c", ".", "p", "d", "f">>,
           mimetype |-> "application/pdf"],
          [originalname |-> <<"a", " ", "b", ".", "p", "d", "f">>,
           mimetype |-> "application/pdf"]}

\* uploads by whoever is logged in, or by nobody, one request at a time
NextFiles ==
    \/ /\ ~Enrolled
       /\ RegisterStart("r1", "a@x.com", "Pw123!", Missing)
    \/ RegisterInsert("r1")
    \/ /\ ~Enrolled
       /\ \E t \in 1..MaxDraws : VerifyStart("r1", t)
    \/ VerifyGet("r1")
    \/ VerifyUpdate("r1")
    \/ /\ Quiet
       /\ LoginStart("r1", "s1", "10.0.0.1", "a@x.com", "Pw123!")
    \/ LoginGet("r1")
    \/ LoginCompare("r1")
    \/ /\ Quiet
       /\ \E s \in Sessions, part \in Parts : UploadStart("r1", s, part)
    \/ UploadStore("r1")
    \/ UploadCheck("r1")
    \/ \E k \in 1..Len(auditQueue) : AuditInsert(k, "written")

SpecFiles == InitSeeded /\ [][NextFiles]_vars

\* registration and reset requests while their messages are delivered or not
NextMail ==
    \/ \E e \in {"a@x.com", "client@ivory.example"} :
          RegisterStart("r1", e, "Pw123!", Missing)
    \/ RegisterInsert("r1")
    \/ \E e \in {"client@ivory.example", "a@x.com"} : RequestResetStart("r1", e)
    \/ RequestResetGet("r1")
    \/ RequestResetUpdate("r1")
    \/ \E m \in outbox, o \in Outcomes : MailSettle(m, o)
    \/ \E k \in 1..Len(auditQueue) : AuditInsert(k, "written")

SpecMail == InitSeeded /\ [][NextMail]_vars

\* the operations that write the audit log: an admin's requests in one slot
\* and password-reset requests in the other, in flight at once, while the
\* INSERTs they have handed to the store run, in any order, or fail
NextAudit ==
    \/ /\ session["s1"] = NoClaim
       /\ LoginStart("r1", "s1", "10.0.0.1", SeedRow("admin").email,
                     SeedRow("admin").password)
    \/ LoginGet("r1")
    \/ LoginCompare("r1")
    \/ PatchStart("r1", "s1", SeedParam("client"))
    \/ PatchCheck("r1")
    \/ PatchGet("r1")
    \/ PatchRun("r1")
    \/ PatchReread("r1")
    \/ DeleteStart("r1", "s1", SeedParam("client"))
    \/ DeleteCheck("r1")
    \/ DeleteGet("r1")
    \/ DeleteRun("r1")
    \/ RequestResetStart("r2", "client@ivory.example")
    \/ RequestResetGet("r2")
    \/ RequestResetUpdate("r2")
    \/ \E k \in 1..Len(auditQueue), o \in AuditOutcomes : AuditInsert(k, o)

SpecAudit == InitProvisioned /\ [][NextAudit]_vars

\* every operation that writes the audit log, and the file download, which
\* writes none, one request at a time
NextKinds ==
    \/ /\ Quiet
       /\ session["s1"] = NoClaim
       /\ LoginStart("r1", "s1", "10.0.0.1", SeedRow("admin").email,
                     SeedRow("admin").password)
    \/ LoginGet("r1")
    \/ LoginCompare("r1")
    \/ /\ Quiet
       /\ UploadStart("r1", "s1", [originalname |-> <<"a", ".", "p", "d", "f">>,
                                   mimetype |-> "application/pdf"])
    \/ UploadStore("r1")
    \/ UploadCheck("r1")
    \/ UploadInsert("r1")
    \/ /\ Quiet
       /\ \E x \in {<<"1">>, <<"1", "x">>, <<"", "1">>} :
             FileDeleteStart("r1", "s1", x)
    \/ FileDeleteCheck("r1")
    \/ FileDeleteGet("r1")
    \/ FileDeleteUnlink("r1")
    \/ FileDeleteRun("r1")
    \/ /\ Quiet
       /\ \E x \in {<<"1">>, <<"", "1">>} : DownloadStart("r1", "s1", x)
    \/ DownloadGet("r1")
    \/ DownloadSend("r1")
    \/ /\ Quiet
       /\ PatchStart("r1", "s1", SeedParam("client"))
    \/ PatchCheck("r1")
    \/ PatchGet("r1")
    \/ PatchRun("r1")
    \/ PatchReread("r1")
    \/ /\ Quiet
       /\ DeleteStart("r1", "s1", SeedParam("client"))
    \/ DeleteCheck("r1")
    \/ DeleteGet("r1")
    \/ DeleteRun("r1")
    \/ /\ Quiet
       /\ RegisterStart("r1", "a@x.com", "Pw123!", Missing)
    \/ RegisterInsert("r1")
    \/ /\ Quiet
       /\ \E t \in 1..MaxDraws : VerifyStart("r1", t)
    \/ VerifyGet("r1")
    \/ VerifyUpdate("r1")
    \/ /\ Quiet
       /\ RequestResetStart("r1", "client@ivory.example")
    \/ RequestResetGet("r1")
    \/ RequestResetUpdate("r1")
    \/ /\ Quiet
       /\ \E t \in 1..MaxDraws : ResetStart("r1", t, "Pw123!")
    \/ ResetGet("r1")
    \/ ResetUpdate("r1")
    \/ \E k \in 1..Len(auditQueue) : AuditInsert(k, "written")

SpecKinds == InitProvisioned /\ [][NextKinds]_vars

\* registration and verification days apart, with a reset request between
NextVerifyLater ==
    \/ /\ Quiet
       /\ TickDay
    \/ /\ Quiet
       /\ RegisterStart("r1", "a@x.com", "Pw123!", Missing)
    \/ RegisterInsert("r1")
    \/ /\ Quiet
       /\ \E t \in Tokens : VerifyStart("r1", t)
    \/ VerifyGet("r1")
    \/ VerifyUpdate("r1")
    \/ /\ Quiet
       /\ RequestResetStart("r1", "client@ivory.example")
    \/ RequestResetGet("r1")
    \/ RequestResetUpdate("r1")
    \/ \E k \in 1..Len(auditQueue) : AuditInsert(k, "written")

SpecVerifyLater == InitSeeded /\ [][NextVerifyLater]_vars

\* one registration, and verification requests in flight at once
NextVerifyRace ==
    \/ RegisterStart("r1", "a@x.com", "Pw123!", Missing)
    \/ RegisterInsert("r1")
    \/ \E p \in Procs, t \in 1..MaxDraws : VerifyStart(p, t)
    \/ \E p \in Procs : VerifyGet(p)
    \/ \E p \in Procs : VerifyUpdate(p)
    \/ \E k \in 1..Len(auditQueue) : AuditInsert(k, "written")

SpecVerifyRace == InitSeeded /\ [][NextVerifyRace]_vars

\* requests that are refused, among requests that are served, on one
\* session and one at a time
NextErrors ==
    \/ /\ Quiet
       /\ limiter["10.0.0.1"].hits < MaxLogins
       /\ \E e \in Emails \cup {Missing}, pw \in {"AdminChangeMe!", "Pw123!"} :
             LoginStart("r1", "s1", "10.0.0.1", e, pw)
    \/ LoginGet("r1")
    \/ LoginCompare("r1")
    \/ /\ Quiet
       /\ RegisterStart("r1", "a@x.com", "Pw123!", Missing)
    \/ RegisterInsert("r1")
    \/ /\ Quiet
       /\ \E t \in Tokens : VerifyStart("r1", t)
    \/ VerifyGet("r1")
    \/ VerifyUpdate("r1")
    \/ /\ Quiet
       /\ \E e \in {"client@ivory.example", Missing} : RequestResetStart("r1", e)
    \/ RequestResetGet("r1")
    \/ RequestResetUpdate("r1")
    \/ /\ Quiet
       /\ \E t \in Tokens : ResetStart("r1", t, "Pw123!")
    \/ ResetGet("r1")
    \/ ResetUpdate("r1")
    \/ /\ Quiet
       /\ \E x \in {<<"1">>, <<"2">>, <<"x">>} : PatchStart("r1", "s1", x)
    \/ PatchCheck("r1")
    \/ PatchGet("r1")
    \/ PatchRun("r1")
    \/ PatchReread("r1")
    \/ /\ Quiet
       /\ \E x \in {<<"1">>, <<"2">>} : DeleteStart("r1", "s1", x)
    \/ DeleteCheck("r1")
    \/ DeleteGet("r1")
    \/ DeleteRun("r1")
    \/ \E k \in 1..Len(auditQueue) : AuditInsert(k, "written")

SpecErrors == InitProvisioned /\ [][NextErrors]_vars

\* the operations that answer with data of accounts, while accounts hold
\* tokens, one request at a time
NextPayloads ==
    \/ /\ Quiet
       /\ session["s1"] = NoClaim
       /\ LoginStart("r1", "s1", "10.0.0.1", SeedRow("admin").email,
                     SeedRow("admin").password)
    \/ LoginGet("r1")
    \/ LoginCompare("r1")
    \/ /\ Quiet
       /\ MeStart("r1", "s1")
    \/ MeGet("r1")
    \/ /\ Quiet
       /\ \E e \in {"a@x.com", "client@ivory.example"} :
             RegisterStart("r1", e, "Pw123!", Missing)
    \/ RegisterInsert("r1")
    \/ /\ Quiet
       /\ \E e \in {"client@ivory.example", "a@x.com"} : RequestResetStart("r1", e)
    \/ RequestResetGet("r1")
    \/ RequestResetUpdate("r1")
    \/ /\ Quiet
       /\ UsersStart("r1", "s1")
    \/ UsersCheck("r1")
    \/ UsersAll("r1")
    \/ /\ Quiet
       /\ PatchStart("r1", "s1", SeedParam("client"))
    \/ PatchCheck("r1")
    \/ PatchGet("r1")
    \/ PatchRun("r1")
    \/ PatchReread("r1")
    \/ /\ Quiet
       /\ AuditLogsStart("r1", "s1")
    \/ AuditLogsCheck("r1")
    \/ AuditLogsAll("r1")
    \/ \E k \in 1..Len(auditQueue) : AuditInsert(k, "written")

SpecPayloads == InitProvisioned /\ [][NextPayloads]_vars

\* password resets of a registered account, verified and logged in, and of
\* the seeded client, which is not verified, one request at a time
NextResetFrame ==
    \/ /\ Quiet
       /\ RegisterStart("r1", "a@x.com", "Pw123!", Missing)
    \/ RegisterInsert("r1")
    \/ /\ Quiet
       /\ \E t \in 1..MaxDraws : VerifyStart("r1", t)
    \/ VerifyGet("r1")
    \/ VerifyUpdate("r1")
    \/ /\ Quiet
       /\ \E e \in {"client@ivory.example", "a@x.com"},
             pw \in {"Pw123!", "New456!"} :
             LoginStart("r1", "s1", "10.0.0.1", e, pw)
    \/ LoginGet("r1")
    \/ LoginCompare("r1")
    \/ /\ Quiet
       /\ MeStart("r1", "s1")
    \/ MeGet("r1")
    \/ /\ Quiet
       /\ \E e \in {"client@ivory.example", "a@x.com"} : RequestResetStart("r1", e)
    \/ RequestResetGet("r1")
    \/ RequestResetUpdate("r1")
    \/ /\ Quiet
       /\ \E t \in 1..MaxDraws : ResetStart("r1", t, "New456!")
    \/ ResetGet("r1")
    \/ ResetUpdate("r1")
    \/ \E k \in 1..Len(auditQueue) : AuditInsert(k, "written")

SpecResetFrame == InitSeeded /\ [][NextResetFrame]_vars

\* two passwords of 73 characters that differ in the last one only
LongPrefix ==
    "aaaaaaaaaaaaaaaaaaaaaaaaaaaaaaaaaaaaaaaaaaaaaaaaaaaaaaaaaaaaaaaaaaaaaaaa"

OldPassword == LongPrefix \o "c"

NewPassword == LongPrefix \o "b"

\* an account registered with OldPassword is verified, asks for a reset and
\* resets its password to NewPassword, and logs in with either password or
\* with a third one, one request at a time
NextResetLogin ==
    \/ /\ Quiet
       /\ RegisterStart("r1", "a@x.com", OldPassword, Missing)
    \/ RegisterInsert("r1")
    \/ /\ Quiet
       /\ \E t \in 1..MaxDraws : VerifyStart("r1", t)
    \/ VerifyGet("r1")
    \/ VerifyUpdate("r1")
    \/ /\ Quiet
       /\ RequestResetStart("r1", "a@x.com")
    \/ RequestResetGet("r1")
    \/ RequestResetUpdate("r1")
    \/ /\ Quiet
       /\ \E t \in 1..MaxDraws : ResetStart("r1", t, NewPassword)
    \/ ResetGet("r1")
    \/ ResetUpdate("r1")
    \/ /\ Quiet
       /\ \E pw \in {OldPassword, NewPassword, "Pw123!"} :
             LoginStart("r1", "s1", "10.0.0.1", "a@x.com", pw)
    \/ LoginGet("r1")
    \/ LoginCompare("r1")
    \/ \E k \in 1..Len(auditQueue) : AuditInsert(k, "written")

SpecResetLogin == InitSeeded /\ [][NextResetLogin]_vars

\* two registered accounts are verified and log in and out on one session
\* cookie, two requests in flight at once
NextSession ==
    \/ /\ Quiet
       /\ \E e \in {"a@x.com", "b@x.com"} : RegisterStart("r1", e, "Pw123!", Missing)
    \/ RegisterInsert("r1")
    \/ /\ Quiet
       /\ \E t \in 1..MaxDraws : VerifyStart("r1", t)
    \/ VerifyGet("r1")
    \/ VerifyUpdate("r1")
    \/ /\ Quiet
       /\ limiter["10.0.0.1"].hits < MaxLogins + 1
       /\ \E p \in Procs, e \in {"a@x.com", "b@x.com"}, pw \in {"Pw123!", "Pw124!"} :
             LoginStart(p, "s1", "10.0.0.1", e, pw)
    \/ \E p \in Procs : LoginGet(p)
    \/ \E p \in Procs : LoginCompare(p)
    \/ /\ Quiet
       /\ \E p \in Procs : LogoutStart(p, "s1")
    \/ \E p \in Procs : LogoutDestroy(p)
    \/ \E k \in 1..Len(auditQueue) : AuditInsert(k, "written")

SpecSession == InitSeeded /\ [][NextSession]_vars

\* a registered and verified account logs in and out as one client and
\* sends every session-gated request as that client or another, one
\* request at a time but for a second Logout of the first client, which
\* may overlap a Login, a Logout or a request for the profile
NextGate ==
    \/ /\ ~Enrolled
       /\ RegisterStart("r1", "a@x.com", "Pw123!", Missing)
    \/ RegisterInsert("r1")
    \/ /\ ~Enrolled
       /\ \E t \in 1..MaxDraws : VerifyStart("r1", t)
    \/ VerifyGet("r1")
    \/ VerifyUpdate("r1")
    \/ /\ Quiet
       /\ limiter["10.0.0.1"].hits < MaxLogins
       /\ LoginStart("r1", "s1", "10.0.0.1", "a@x.com", "Pw123!")
    \/ LoginGet("r1")
    \/ LoginCompare("r1")
    \/ /\ Quiet
       /\ LogoutStart("r1", "s1")
    \/ /\ Quiet /\ reqs["r1"].op \in {"none", "login", "logout", "me"}
       /\ LogoutStart("r2", "s1")
    \/ \E p \in Procs : LogoutDestroy(p)
    \/ /\ Quiet
       /\ \E s \in Sessions : MeStart("r1", s)
    \/ MeGet("r1")
    \/ /\ Quiet
       /\ \E s \in Sessions : UsersStart("r1", s)
    \/ UsersCheck("r1")
    \/ /\ Quiet
       /\ \E s \in Sessions : AuditLogsStart("r1", s)
    \/ AuditLogsCheck("r1")
    \/ /\ Quiet
       /\ \E s \in Sessions : DeleteStart("r1", s, <<"1">>)
    \/ DeleteCheck("r1")
    \/ /\ Quiet
       /\ \E s \in Sessions : PatchStart("r1", s, <<"1">>)
    \/ PatchCheck("r1")
    \/ /\ Quiet
       /\ \E s \in Sessions :
             UploadStart("r1", s, [originalname |-> <<"a", ".", "p", "d", "f">>,
                                   mimetype |-> "application/pdf"])
    \/ UploadStore("r1")
    \/ UploadCheck("r1")
    \/ /\ Quiet
       /\ \E s \in Sessions : FileDeleteStart("r1", s, <<"1">>)
    \/ FileDeleteCheck("r1")
    \/ /\ Quiet
       /\ \E s \in Sessions : FilesStart("r1", s)
    \/ FilesAll("r1")
    \/ /\ Quiet
       /\ \E s \in Sessions : DownloadStart("r1", s, <<"1">>)
    \/ DownloadGet("r1")
    \/ /\ Quiet
       /\ \E s \in Sessions : Portal("r1", s)
    \/ \E k \in 1..Len(auditQueue) : AuditInsert(k, "written")

SpecGate == InitSeeded /\ [][NextGate]_vars

---------------------------------------------------------------------------
(* Properties *)

\* this step is a step of the request in slot p, which was at `pc` of `op`
Steps(p, op, pc) == At(p, op, pc) /\ reqs'[p] # reqs[p]

\* the request in slot p has just been answered by this step
Answered(p) == reqs[p].pc \notin {"idle", "done"} /\ reqs'[p].pc = "done"

\* account i has completed an email verification: the entry of it is in
\* the table or waits at the store
Consumed(i) ==
    \/ \E k \in 1..Len(auditLogs) :
          auditLogs[k].action = "EMAIL_VERIFIED" /\ auditLogs[k].resource_id = i
    \/ \E k \in 1..Len(auditQueue) :
          auditQueue[k].action = "EMAIL_VERIFIED" /\ auditQueue[k].resource_id = i

\* the entry the step hands to the store
Queued == auditQueue'[Len(auditQueue')]

\* the step calls logAudit once: one entry joins the waiting INSERTs and
\* the table is as it was
QueuesOne ==
    /\ Len(auditQueue') = Len(auditQueue) + 1
    /\ auditQueue' = Append(auditQueue, Queued)
    /\ auditLogs' = auditLogs

\* the step leaves the audit table and the waiting INSERTs alone
NoAudit == auditLogs' = auditLogs /\ auditQueue' = auditQueue

\* the table changes only by the run of a waiting INSERT, which adds the
\* entry as it was handed over, with the time of the run
RowsFromQueue ==
    auditLogs' # auditLogs
        => \E k \in 1..Len(auditQueue) :
              /\ auditLogs' = Append(auditLogs, [timestamp |-> now] @@ auditQueue[k])
              /\ Len(auditQueue') = Len(auditQueue) - 1

\* C1: no session carries the id of an account that is unverified, and the
\* only step that writes a session's account id is the last step of a Login
\* whose lookup found the account verified, whatever the password.
C1_SessionOnlyForVerified ==
    /\ [](\A s \in Sessions :
            session[s] # NoClaim /\ session[s] \in Ids
                => clients[session[s]].is_verified = 1)
    /\ [][\A s \in Sessions :
            session'[s] # session[s] /\ session'[s] # NoClaim
                => \E p \in Procs :
                      /\ At(p, "login", "compare")
                      /\ reqs[p].v.sid = s
                      /\ session'[s] = reqs[p].row.id
                      /\ reqs[p].row.is_verified = 1]_vars

\* C1 witness: a session is bound to the account registered as a@x.com,
\* which was unverified until its email verification
C1_Witness ==
    \E s \in Sessions :
        /\ session[s] \in Ids
        /\ clients[session[s]].email = "a@x.com"
        /\ Consumed(session[s])

\* C2 (as claimed): a reset-password request stores its password and answers
\* success only while its token is still the account's reset token, so of
\* two calls presenting the same token exactly one changes the password.
C2_ResetTokenConsumedOnce ==
    [][\A p \in Procs :
          At(p, "reset-password", "hash") /\ Answered(p) /\ reqs'[p].status = 200
              => /\ reqs[p].row.id \in Ids
                 /\ clients[reqs[p].row.id].reset_token = reqs[p].v.token]_vars

\* C3 (as claimed): a reset-password lookup that runs at or after the expiry
\* instant stored with the token fails with the invalid-token error and
\* changes neither the password nor the token.
C3_ExpiredTokenRejected ==
    [][\A p \in Procs :
          (/\ Steps(p, "reset-password", "get")
           /\ \E i \in Ids :
                 /\ clients[i].reset_token # NULL
                 /\ clients[i].reset_token = reqs[p].v.token
                 /\ now >= InstantOf(clients[i].reset_token_expires))
              => /\ reqs'[p].pc = "done"
                 /\ reqs'[p].status = 400
                 /\ reqs'[p].error = "Invalid or expired token"
                 /\ clients' = clients]_vars

\* C4 (as claimed): once the startup seeding has run, both seed accounts
\* exist with their role and with verified = true.
C4_SeedAccountsVerified ==
    seedPending = {}
        => \A w \in {"client", "admin"} :
              \E i \in Ids :
                  /\ clients[i].email = SeedRow(w).email
                  /\ clients[i].is_admin = SeedRow(w).is_admin
                  /\ clients[i].is_verified = 1

\* C5: a Login that carries both fields, is not rate-limited and names an
\* unverified account is answered 403 "Email not verified", never 401, with
\* the right password as with a wrong one, and binds no session.
C5_UnverifiedLoginForbidden ==
    [][\A p \in Procs :
          (/\ Steps(p, "login", "get")
           /\ \E i \in Ids : /\ clients[i].email = reqs[p].v.email
                             /\ clients[i].is_verified = 0)
              => /\ reqs'[p].pc = "done"
                 /\ reqs'[p].status = 403
                 /\ reqs'[p].error =
                       "Email not verified. Check your inbox for a verification link."
                 /\ session' = session]_vars

\* C5 witness: a login was answered 403 while an unverified account exists
C5_Witness ==
    \E p \in Procs :
        /\ Done(p) /\ reqs[p].op = "login" /\ reqs[p].status = 403
        /\ \E i \in Ids : clients[i].is_verified = 0
                          /\ clients[i].password_hash = Hash("Pw123!")

\* C6 (as claimed): a Register for an email that already has an account is
\* answered with a Conflict error (409) and adds no record.
C6_DuplicateRegisterConflict ==
    [][\A p \in Procs :
          Steps(p, "register", "hash") /\ EmailTaken(reqs[p].v.email)
              => /\ reqs'[p].pc = "done"
                 /\ reqs'[p].status = 409
                 /\ clients' = clients]_vars

\* the verification token t was mailed to an account that has since
\* completed its verification
TokenUsed(t) ==
    \E m \in outbox :
        /\ m.token = t
        /\ \E i \in Ids : clients[i].email = m.to /\ Consumed(i)

\* C7: called one after the other, the first VerifyEmail with an account's
\* token succeeds, sets verified = true and clears the token; every later
\* call with that token fails with the invalid-token error, changing nothing.
C7_VerifySingleUse ==
    [][\A p \in Procs :
          /\ Steps(p, "verify-email", "update")
                => /\ reqs'[p].pc = "done" /\ reqs'[p].status = 200
                   /\ reqs[p].row.id \in Ids
                   /\ clients'[reqs[p].row.id].is_verified = 1
                   /\ clients'[reqs[p].row.id].verification_token = NULL
          /\ Steps(p, "verify-email", "get") /\ TokenUsed(reqs[p].v.token)
                => /\ reqs'[p].pc = "done" /\ reqs'[p].status = 400
                   /\ reqs'[p].error = "Invalid or expired token"
                   /\ clients' = clients /\ NoAudit]_vars

\* C7 witness: a verification request was answered 400 after the account
\* it names was verified with the same token
C7_Witness ==
    \E p \in Procs :
        /\ Done(p) /\ reqs[p].op = "verify-email" /\ reqs[p].status = 400
        /\ reqs[p].error = "Invalid or expired token"
        /\ \E t \in 1..MaxDraws : TokenUsed(t)

\* the one answer RequestPasswordReset gives when it does not fail validation
GenericResetAnswer(r) ==
    /\ r.pc = "done" /\ r.status = 200 /\ r.error = ""
    /\ r.body = [keys |-> {"ok", "message"},
                 message |-> "If that email exists in our system, a password reset link has been sent."]

\* C8: RequestPasswordReset answers an email without account exactly as it
\* answers an email with one, and for the email without account it writes no
\* token or expiry, appends no audit entry and sends no mail.
C8_ResetRequestUniform ==
    [][\A p \in Procs :
          /\ Steps(p, "request-password-reset", "get")
             /\ ~EmailTaken(reqs[p].v.email)
                => /\ GenericResetAnswer(reqs'[p])
                   /\ clients' = clients /\ NoAudit
                   /\ outbox' = outbox
          /\ Steps(p, "request-password-reset", "update")
                => GenericResetAnswer(reqs'[p])]_vars

\* C8 witness: the generic answer was given and nothing was written
C8_Witness ==
    \E p \in Procs :
        /\ reqs[p].op = "request-password-reset" /\ GenericResetAnswer(reqs[p])
        /\ auditLogs = <<>> /\ outbox = {}
        /\ \A i \in Ids : clients[i].reset_token = NULL

\* C9: PromoteOrDemote and DeleteUser aimed at the caller's own id fail, 400
\* for an admin caller and 403 for any other, and change no account.
C9_SelfTargetFails ==
    [][\A p \in Procs :
          (/\ reqs[p].op \in {"delete-user", "patch-user"}
           /\ reqs[p].pc = "admin" /\ reqs'[p] # reqs[p]
           /\ ParseInt(reqs[p].v.param) = reqs[p].v.clientId)
              => /\ reqs'[p].pc = "done"
                 /\ reqs'[p].status =
                       IF /\ reqs[p].v.clientId \in Ids
                          /\ clients[reqs[p].v.clientId].is_admin = 1
                       THEN 400 ELSE 403
                 /\ clients' = clients]_vars

\* C9 witness: an admin's request to delete their own account was refused
C9_Witness ==
    \E p \in Procs :
        /\ Done(p) /\ reqs[p].op = "delete-user" /\ reqs[p].status = 400
        /\ reqs[p].error = "Cannot delete yourself"
        /\ \E s \in Sessions : session[s] \in Ids /\ clients[session[s]].is_admin = 1

\* a Login request from address a has arrived in this step
Arrived(a) == limiter'[a] # limiter[a] /\ now' = now


\* C12: the payload of a successful Login carries the account id, the email
\* and the display name of the account.
C12_LoginPayloadHasId ==
    \A p \in Procs :
        Done(p) /\ reqs[p].op = "login" /\ reqs[p].status = 200
            => {"id", "email", "name"} \subseteq reqs[p].body.keys

\* C13: a PromoteOrDemote by an admin that has found its target sets the
\* target's admin flag to the opposite of what it was, and then hands one
\* audit entry to the store, USER_PROMOTED when the flag is now true and
\* USER_DEMOTED when it is now false, whose actor is the caller's id, whose
\* resource id is the target's id and whose detail contains the target's
\* email, and answers 200; the store appends the entry as it was handed
\* over when its INSERT runs.
C13_PromoteDemoteAudited ==
    [][/\ RowsFromQueue
       /\ \A p \in Procs :
          /\ Steps(p, "patch-user", "run")
                => /\ reqs[p].v.id \in Ids
                   /\ clients'[reqs[p].v.id].is_admin =
                         1 - clients[reqs[p].v.id].is_admin
                   /\ NoAudit
          /\ Steps(p, "patch-user", "reread")
                => /\ reqs[p].v.id \in Ids
                   /\ clients' = clients
                   /\ QueuesOne
                   /\ Queued.action =
                         IF clients[reqs[p].v.id].is_admin = 1
                         THEN "USER_PROMOTED" ELSE "USER_DEMOTED"
                   /\ Queued.user_id = session[reqs[p].v.sid]
                   /\ Queued.resource_id = reqs[p].v.id
                   /\ \E k \in DOMAIN Queued.details :
                         Queued.details[k] = clients[reqs[p].v.id].email
                   /\ reqs'[p].pc = "done" /\ reqs'[p].status = 200]_vars

\* C13 witness: the seeded admin has promoted the verified seeded client,
\* and the table holds the USER_PROMOTED entry
C13_Witness ==
    \E a, c \in Ids, k \in DOMAIN auditLogs :
        /\ clients[a].email = SeedRow("admin").email
        /\ clients[c].email = SeedRow("client").email
        /\ clients[c].is_admin = 1 /\ clients[c].is_verified = 1
        /\ auditLogs[k].action = "USER_PROMOTED"
        /\ auditLogs[k].user_id = a
        /\ auditLogs[k].resource_id = c

\* C14 (as claimed): a file is added to the uploads storage only by an
\* upload request whose session is bound to an account with the admin flag,
\* and a row is added to table files only for such a request; every other
\* upload request leaves both unchanged.
C14_UploadAdminOnly ==
    [][/\ uploads' # uploads
            => \E p \in Procs :
                  /\ reqs'[p].op = "upload" /\ reqs'[p].pc = "admin"
                  /\ reqs'[p].v.clientId \in Ids
                  /\ clients[reqs'[p].v.clientId].is_admin = 1
       /\ files' # files
            => \E p \in Procs :
                  /\ At(p, "upload", "insert")
                  /\ reqs[p].v.clientId \in Ids
                  /\ clients[reqs[p].v.clientId].is_admin = 1]_vars

\* the one answer Login gives to credentials it does not accept
InvalidCredentials(r) ==
    /\ r.pc = "done" /\ r.status = 401 /\ r.error = "Invalid credentials"
    /\ r.body = NoBody

\* C15: a Login for an email that has no account and a Login with a wrong
\* password for a verified account get the same answer, 401 with the message
\* "Invalid credentials" and no payload, and neither changes any session
\* (a wrong password is one bcrypt.compare rejects: its first 72 bytes
\* differ from those of the password stored).
C15_LoginFailuresAlike ==
    [][\A p \in Procs :
          /\ Steps(p, "login", "get") /\ ~EmailTaken(reqs[p].v.email)
                => InvalidCredentials(reqs'[p]) /\ session' = session
          /\ (/\ Steps(p, "login", "compare")
              /\ reqs[p].row.is_verified = 1
              /\ reqs[p].row.password_hash # Hash(reqs[p].v.password))
                => InvalidCredentials(reqs'[p]) /\ session' = session]_vars

\* C15 witness: a Login was refused with the invalid-credentials answer
\* while a verified account exists and a@x.com has no account
C15_Witness ==
    \E p \in Procs :
        /\ reqs[p].op = "login" /\ InvalidCredentials(reqs[p])
        /\ \E i \in Ids : clients[i].is_verified = 1
        /\ ~EmailTaken("a@x.com")
        /\ \A s \in Sessions : session[s] = NoClaim

\* the operations that test req.session.clientId before anything else of
\* their handler (lines 207, 248, 265, 274, 287, 312, 333, 359, 372, 456)
Gated == {"me", "upload", "files", "users", "delete-file", "delete-user",
          "patch-user", "download", "portal", "audit-logs"}

\* the answer of a gated operation to a session without account id: 401
\* "Not authenticated", and from the portal page the redirect to the login
\* page
NotAuthenticated(r) ==
    /\ r.pc = "done"
    /\ IF r.op = "portal"
       THEN r.status = 302 /\ r.body.location = "/clients.html"
       ELSE r.status = 401 /\ r.error = "Not authenticated"

\* the session cookie of the request in a slot
Cookie(r) == IF "sid" \in DOMAIN r THEN r.sid ELSE r.v.sid

\* C16 (as claimed): a Logout is answered 200 with { ok } whether or not
\* its session was bound, and when it is answered the caller's session
\* carries no account id; a session without account id gets one only from a
\* successful Login on it; and every session-gated operation that arrives
\* on a session without account id is refused as not authenticated, while
\* one that arrives on a session with an account id is not.
C16_LogoutUnbinds ==
    [][\A p \in Procs :
          /\ Steps(p, "logout", "destroy")
                => /\ reqs'[p].pc = "done" /\ reqs'[p].status = 200
                   /\ reqs'[p].body = [keys |-> {"ok"}]
                   /\ session'[reqs[p].v.sid] = NoClaim
          /\ \A s \in Sessions :
                session[s] = NoClaim /\ session'[s] # NoClaim
                    => \E q \in Procs :
                          /\ Steps(q, "login", "compare")
                          /\ reqs[q].v.sid = s /\ reqs'[q].status = 200
          /\ (/\ Free(p) /\ reqs'[p] # reqs[p]
              /\ reqs'[p].op \in Gated \ {"upload"})
                => /\ NotAuthenticated(reqs'[p]) <=> session[Cookie(reqs'[p])] = NoClaim
                   /\ reqs'[p].pc # "done"
                         => reqs'[p].v.clientId = session[reqs'[p].v.sid]
          /\ (Free(p) /\ reqs'[p] # reqs[p] /\ reqs'[p].op = "upload")
                => /\ reqs'[p].pc = "part"
                   /\ reqs'[p].v.clientId = session[reqs'[p].v.sid]
          /\ Steps(p, "upload", "part")
                => (NotAuthenticated(reqs'[p]) <=> reqs[p].v.clientId = NoClaim)]_vars

\* C16 (amended): a Logout is answered 200 with { ok } whether or not its
\* session was bound, binds no session, leaves the sessions of other
\* clients alone and destroys the session its request arrived with: when
\* it is answered the caller's session carries no account id, unless the
\* caller's cookie has been replaced since the Logout arrived by that of a
\* new session (saved by a Login answered in between); a session without
\* account id gets one only from a successful Login on it; and every
\* session-gated operation that arrives on a session without account id is
\* refused as not authenticated, while one that arrives on a session with
\* an account id is not (an upload makes the test once its body has been
\* received and stored, on the session it arrived with).
C16_LogoutDestroysItsSession ==
    [][\A p \in Procs :
          /\ Steps(p, "logout", "destroy")
                => /\ reqs'[p].pc = "done" /\ reqs'[p].status = 200
                   /\ reqs'[p].body = [keys |-> {"ok"}]
                   /\ \A s \in Sessions :
                         session'[s] = IF s = reqs[p].v.sid
                                       THEN session'[s] ELSE session[s]
                   /\ session'[reqs[p].v.sid] \in {NoClaim, session[reqs[p].v.sid]}
                   /\ \/ session'[reqs[p].v.sid] = NoClaim
                      \/ cookie[reqs[p].v.sid] # reqs[p].v.sessionID
                   /\ Loaded(reqs[p].v.sid) = reqs[p].v.sessionID
                         => session'[reqs[p].v.sid] = NoClaim
          /\ \A s \in Sessions :
                session[s] = NoClaim /\ session'[s] # NoClaim
                    => \E q \in Procs :
                          /\ Steps(q, "login", "compare")
                          /\ reqs[q].v.sid = s /\ reqs'[q].status = 200
          /\ (/\ Free(p) /\ reqs'[p] # reqs[p]
              /\ reqs'[p].op \in Gated \ {"upload"})
                => /\ NotAuthenticated(reqs'[p]) <=> session[Cookie(reqs'[p])] = NoClaim
                   /\ reqs'[p].pc # "done"
                         => reqs'[p].v.clientId = session[reqs'[p].v.sid]
          /\ (Free(p) /\ reqs'[p] # reqs[p] /\ reqs'[p].op = "upload")
                => /\ reqs'[p].pc = "part"
                   /\ reqs'[p].v.clientId = session[reqs'[p].v.sid]
          /\ Steps(p, "upload", "part")
                => (NotAuthenticated(reqs'[p]) <=> reqs[p].v.clientId = NoClaim)]_vars

\* C16 witness: the portal page has been served to a session, and after a
\* Logout the same session is sent to the login page: no session carries
\* an account id any more
C16_Witness ==
    \E p \in Procs :
        /\ reqs[p].op = "portal" /\ NotAuthenticated(reqs[p])
        /\ portalFile
        /\ \A s \in Sessions : session[s] = NoClaim

\* the messages of the storage layer's own errors
StoreErrorTexts == {"SQLITE_CONSTRAINT: UNIQUE constraint failed: clients.email"}

\* C17 (as claimed): no answer of any operation carries the text of a
\* storage-layer error; the uniqueness violation on Register too is
\* answered with a fixed message.
C17_NoStoreErrorText ==
    \A p \in Procs : Done(p) => reqs[p].error \notin StoreErrorTexts

\* C18: Register and RequestPasswordReset answer 200 in the step that hands
\* the message to the mail sender, while its delivery is still pending; and
\* the settling of a delivery, sent or failed, changes no account, no audit
\* entry, no session and no answer.
C18_MailOutcomeAbsorbed ==
    [][/\ \A p \in Procs :
             (\/ Steps(p, "register", "hash") /\ ~EmailTaken(reqs[p].v.email)
              \/ Steps(p, "request-password-reset", "update"))
                => /\ reqs'[p].pc = "done" /\ reqs'[p].status = 200
                   /\ clients' # clients
                   /\ \E m \in outbox' \ outbox :
                         /\ m.to = reqs[p].v.email
                         /\ \A x \in settled' : x.msg # m
       /\ settled' # settled
             => /\ clients' = clients /\ NoAudit
                /\ session' = session /\ reqs' = reqs
                /\ outbox' = outbox]_vars

\* C18 witness: the verification message for a@x.com has failed, and the
\* account exists and a request has its success answer
C18_Witness ==
    /\ \E x \in settled : x.outcome = "failed" /\ x.msg.to = "a@x.com"
    /\ EmailTaken("a@x.com")
    /\ \E p \in Procs : Done(p) /\ reqs[p].status = 200

\* C19 (as claimed): the step in which a Register succeeds hands an audit
\* entry for the new account to the store.
C19_RegisterAudited ==
    [][\A p \in Procs :
          (/\ Steps(p, "register", "hash")
           /\ reqs'[p].pc = "done" /\ reqs'[p].status = 200)
              => /\ QueuesOne
                 /\ Queued.resource_id = reqs'[p].body.id]_vars

\* C20: no step removes or changes an audit entry: the log of the next
\* state is the log of this state, entry by entry, with at most new
\* entries behind it.
C20_AuditAppendOnly ==
    [][/\ Len(auditLogs') >= Len(auditLogs)
       /\ \A k \in 1..Len(auditLogs) : auditLogs'[k] = auditLogs[k]]_vars

\* C20 witness: the table holds a reset request for an account followed
\* by an entry about a role change or the removal of the same account
C20_Witness ==
    \E k \in 1..Len(auditLogs) : \E n \in 1..Len(auditLogs) :
        /\ k < n
        /\ auditLogs[k].action = "PASSWORD_RESET_REQUESTED"
        /\ auditLogs[n].resource_id = auditLogs[k].resource_id
        /\ auditLogs[n].action \in {"USER_PROMOTED", "USER_DELETED"}

\* the reset token t has been mailed to account i
Issued(t, i) ==
    \E m \in outbox :
        /\ m.token = t /\ m.to = clients[i].email
        /\ m.subject = "Password Reset - Ivory Foundation Group"

\* C23: with one request at a time, a ResetPassword that presents a reset
\* token of an account to which a later token has been issued since is
\* answered with the invalid-token error and changes nothing (the account's
\* one reset_token column holds the token issued last).
C23_OnlyLatestResetToken ==
    [][\A p \in Procs :
          (/\ Steps(p, "reset-password", "get")
           /\ \E i \in Ids : \E t \in Tokens :
                 /\ Issued(reqs[p].v.token, i) /\ Issued(t, i)
                 /\ t > reqs[p].v.token)
              => /\ reqs'[p].pc = "done" /\ reqs'[p].status = 400
                 /\ reqs'[p].error = "Invalid or expired token"
                 /\ clients' = clients /\ NoAudit]_vars

\* C23 witness: two tokens have been issued to the seeded client, which
\* holds the second, and a ResetPassword has been answered with the
\* invalid-token error
C23_Witness ==
    \E p \in Procs, i \in Ids :
        /\ Done(p) /\ reqs[p].op = "reset-password" /\ reqs[p].status = 400
        /\ reqs[p].error = "Invalid or expired token"
        /\ clients[i].email = SeedRow("client").email
        /\ Issued(1, i) /\ Issued(2, i)
        /\ clients[i].reset_token = 2

\* account i has completed a password reset: the entry of the completion
\* is in the table or waits at the store
ResetCompleted(i) ==
    \/ \E k \in 1..Len(auditLogs) :
          /\ auditLogs[k].action = "PASSWORD_RESET_COMPLETED"
          /\ auditLogs[k].resource_id = i
    \/ \E k \in 1..Len(auditQueue) :
          /\ auditQueue[k].action = "PASSWORD_RESET_COMPLETED"
          /\ auditQueue[k].resource_id = i

\* C24 (as claimed): with one request at a time, the last step of a
\* ResetPassword that found its token answers 200, stores the hash of the
\* new password, clears the account's reset token and expiry and hands one
\* PASSWORD_RESET_COMPLETED entry naming the account to the store, which
\* appends it as it is when its INSERT runs; afterwards a Login on the
\* (verified) account succeeds with the new password and is refused with
\* the invalid-credentials answer with any other, the previous one included
\* (every reset of the scenario asks for NewPassword, and the account was
\* registered with OldPassword), and a ResetPassword with a token that was
\* issued to an account and is no longer its token is refused with the
\* invalid-token error.
C24_ResetCompletion ==
    [][/\ RowsFromQueue
       /\ \A p \in Procs :
          /\ Steps(p, "reset-password", "hash")
                => /\ reqs'[p].pc = "done" /\ reqs'[p].status = 200
                   /\ reqs[p].row.id \in Ids
                   /\ clients'[reqs[p].row.id] =
                         [clients[reqs[p].row.id] EXCEPT
                             !.password_hash = Hash(reqs[p].v.password),
                             !.reset_token = NULL,
                             !.reset_token_expires = NullText]
                   /\ QueuesOne
                   /\ Queued.action = "PASSWORD_RESET_COMPLETED"
                   /\ Queued.resource_id = reqs[p].row.id
          /\ \A i \in Ids :
                (/\ Steps(p, "login", "get") /\ ResetCompleted(i)
                 /\ clients[i].is_verified = 1
                 /\ clients[i].email = reqs[p].v.email)
                    => reqs'[p].pc = "compare" /\ reqs'[p].row.id = i
          /\ (Steps(p, "login", "compare") /\ ResetCompleted(reqs[p].row.id))
                => IF reqs[p].v.password = NewPassword
                   THEN /\ reqs'[p].pc = "done" /\ reqs'[p].status = 200
                        /\ session'[reqs[p].v.sid] = reqs[p].row.id
                   ELSE InvalidCredentials(reqs'[p]) /\ session' = session
          /\ (/\ Steps(p, "reset-password", "get")
              /\ \E i \in Ids : /\ Issued(reqs[p].v.token, i)
                                 /\ clients[i].reset_token # reqs[p].v.token)
                => /\ reqs'[p].pc = "done" /\ reqs'[p].status = 400
                   /\ reqs'[p].error = "Invalid or expired token"
                   /\ clients' = clients /\ NoAudit]_vars

\* the operations reserved to admins
AdminOps == {"patch-user", "delete-user", "users", "audit-logs"}

\* C25: an admin operation is let past its session test only when its
\* session carries an account id, and is answered 401 "Not authenticated"
\* otherwise; at its admin check it is answered 403 "Admin only" when the
\* account of that id no longer exists or has its admin flag false in the
\* store at that moment, whatever the flag was at login; and neither answer
\* changes an account or the audit log.
C25_AdminOpsGated ==
    [][\A p \in Procs :
          /\ (Free(p) /\ reqs'[p] # reqs[p] /\ reqs'[p].op \in AdminOps)
                => /\ IF reqs'[p].pc = "done"
                      THEN /\ reqs'[p].status = 401
                           /\ reqs'[p].error = "Not authenticated"
                      ELSE /\ session[reqs'[p].v.sid] # NoClaim
                           /\ reqs'[p].v.clientId = session[reqs'[p].v.sid]
                   /\ clients' = clients /\ NoAudit
          /\ (/\ reqs[p].op \in AdminOps /\ reqs[p].pc = "admin"
              /\ reqs'[p] # reqs[p]
              /\ \/ reqs[p].v.clientId \notin Ids
                 \/ clients[reqs[p].v.clientId].is_admin = 0)
                => /\ reqs'[p].pc = "done" /\ reqs'[p].status = 403
                   /\ reqs'[p].error = "Admin only"
                   /\ clients' = clients /\ NoAudit]_vars

\* C25 witness: the seeded admin, still logged in on s1, has been demoted
\* and its next admin operation was answered 403
C25_Witness ==
    \E p \in Procs :
        /\ Done(p) /\ reqs[p].op \in AdminOps /\ reqs[p].status = 403
        /\ session["s1"] \in Ids
        /\ clients[session["s1"]].email = SeedRow("admin").email
        /\ clients[session["s1"]].is_admin = 0
        /\ session["s2"] = NoClaim

\* C26: the verified flag of an account changes only from 0 to 1 and only
\* in the UPDATE of a verify-email request that found the account and is
\* answered 200; a register request inserts its account with is_verified = 0
\* and is_admin = 0 whatever keys its body carries; and an account with
\* is_verified = 1 has verification_token NULL in every reachable state.
C26_VerifiedFlagLifecycle ==
    /\ [](\A i \in Ids : clients[i].is_verified = 1
                            => clients[i].verification_token = NULL)
    /\ [][/\ \A i \in Ids \cap DOMAIN clients' :
                 clients'[i].is_verified # clients[i].is_verified
                   => /\ clients[i].is_verified = 0
                      /\ clients'[i].is_verified = 1
                      /\ \E p \in Procs :
                            /\ Steps(p, "verify-email", "update")
                            /\ reqs[p].row.id = i
                            /\ reqs'[p].pc = "done" /\ reqs'[p].status = 200
          /\ (\E p \in Procs : Steps(p, "register", "hash"))
                => \A i \in DOMAIN clients' \ Ids :
                      /\ clients'[i].is_verified = 0
                      /\ clients'[i].is_admin = 0]_vars

\* C26 witness: an account created by a register request has been verified
C26_Witness ==
    \E p \in Procs :
        /\ Done(p) /\ reqs[p].op = "verify-email" /\ reqs[p].status = 200
        /\ 3 \in Ids /\ clients[3].email = "a@x.com"
        /\ clients[3].is_verified = 1 /\ clients[3].is_admin = 0
        /\ clients[3].verification_token = NULL

\* the action kinds of the audit log
AuditKinds ==
    {"FILE_UPLOADED", "FILE_DELETED", "USER_DELETED", "USER_PROMOTED",
     "USER_DEMOTED", "EMAIL_VERIFIED", "PASSWORD_RESET_REQUESTED",
     "PASSWORD_RESET_COMPLETED"}

\* the step of request p is the one that writes an entry of this kind, and
\* the store holds the change the kind stands for
WrittenBy(p, kind) ==
    LET r == reqs[p]
    IN  CASE kind = "FILE_UPLOADED" ->
               /\ Steps(p, "upload", "insert")
               /\ lastFileId + 1 \in DOMAIN files' \ DOMAIN files
          [] kind = "FILE_DELETED" ->
               /\ Steps(p, "delete-file", "run")
               /\ r.v.id \in DOMAIN files \ DOMAIN files'
          [] kind = "USER_DELETED" ->
               /\ Steps(p, "delete-user", "run")
               /\ r.v.id \in Ids \ DOMAIN clients'
          [] kind = "USER_PROMOTED" ->
               /\ Steps(p, "patch-user", "reread")
               /\ r.row.is_admin = 0 /\ clients'[r.v.id].is_admin = 1
          [] kind = "USER_DEMOTED" ->
               /\ Steps(p, "patch-user", "reread")
               /\ r.row.is_admin = 1 /\ clients'[r.v.id].is_admin = 0
          [] kind = "EMAIL_VERIFIED" ->
               /\ Steps(p, "verify-email", "update")
               /\ clients'[r.row.id].is_verified = 1
          [] kind = "PASSWORD_RESET_REQUESTED" ->
               /\ Steps(p, "request-password-reset", "update")
               /\ clients'[r.row.id].reset_token = r.v.resetToken
          [] kind = "PASSWORD_RESET_COMPLETED" ->
               /\ Steps(p, "reset-password", "hash")
               /\ clients'[r.row.id].password_hash = Hash(r.v.password)
               /\ clients'[r.row.id].reset_token = NULL
          [] OTHER -> FALSE

\* C27: every entry of the audit table has one of the eight kinds; a row
\* joins the table only when a waiting INSERT runs, as the entry that was
\* handed over; and an entry is handed over only one at a time, with one of
\* the eight kinds, by the step of the operation of that kind, answered 200,
\* with the operation's change in the store.
C27_AuditKindsClosed ==
    /\ [](\A k \in DOMAIN auditLogs : auditLogs[k].action \in AuditKinds)
    /\ [][/\ RowsFromQueue
          /\ Len(auditQueue') > Len(auditQueue)
                => /\ QueuesOne
                   /\ Queued.action \in AuditKinds
                   /\ \E p \in Procs :
                         /\ WrittenBy(p, Queued.action)
                         /\ reqs'[p].pc = "done" /\ reqs'[p].status = 200]_vars

\* C27 witness: the log holds entries of three kinds, a file's upload and
\* its deletion among them
C27_Witness ==
    /\ \E k \in DOMAIN auditLogs : auditLogs[k].action = "FILE_UPLOADED"
    /\ \E k \in DOMAIN auditLogs : auditLogs[k].action = "FILE_DELETED"
    /\ \E k \in DOMAIN auditLogs : auditLogs[k].action = "USER_PROMOTED"
    /\ \A k \in DOMAIN auditLogs : auditLogs[k].action \in AuditKinds

\* C28: whatever the clock reads, the lookup of a verify-email request whose
\* token is the verification token an account holds finds that account, and
\* the update that follows sets the account verified and is answered 200.
C28_VerificationTokenNeverExpires ==
    [][\A p \in Procs :
          /\ (/\ Steps(p, "verify-email", "get")
              /\ reqs[p].v.token # NULL
              /\ \E i \in Ids : clients[i].verification_token = reqs[p].v.token)
                => /\ reqs'[p].pc = "update"
                   /\ clients[reqs'[p].row.id].verification_token = reqs[p].v.token
          /\ (Steps(p, "verify-email", "update") /\ reqs[p].row.id \in Ids)
                => /\ reqs'[p].pc = "done" /\ reqs'[p].status = 200
                   /\ clients'[reqs[p].row.id].is_verified = 1]_vars

\* C28 witness: the account registered with the first token drawn was
\* verified more than a day after a reset request of the seeded client that
\* drew the second (no day passes while an audit INSERT waits, so that the
\* times of the rows are the days of the requests)
C28_Witness ==
    \E j, k \in DOMAIN auditLogs, c \in Ids :
        /\ \E m \in outbox : m.to = "a@x.com" /\ m.token = Hex(1)
        /\ auditLogs[j].action = "PASSWORD_RESET_REQUESTED"
        /\ clients[c].email = SeedRow("client").email
        /\ clients[c].reset_token = Hex(2)
        /\ auditLogs[k].action = "EMAIL_VERIFIED"
        /\ auditLogs[k].resource_id = 3
        /\ auditLogs[k].timestamp > auditLogs[j].timestamp + DayLength
        /\ clients[3].is_verified = 1

\* C31 (as claimed): a reset-password request whose account holds, at the
\* moment of its UPDATE, a reset token other than the one its lookup matched
\* (a newer one, stored in between by a reset request) changes neither the
\* account's password nor that token.
C31_StaleCompletionDropped ==
    [][\A p \in Procs :
          (/\ Steps(p, "reset-password", "hash")
           /\ reqs[p].row.id \in Ids
           /\ clients[reqs[p].row.id].reset_token # NULL
           /\ clients[reqs[p].row.id].reset_token # reqs[p].v.token)
              => /\ clients'[reqs[p].row.id].password_hash
                      = clients[reqs[p].row.id].password_hash
                 /\ clients'[reqs[p].row.id].reset_token
                      = clients[reqs[p].row.id].reset_token]_vars

\* the EMAIL_VERIFIED entries written for account i (an account is issued
\* one verification token, at registration)
VerifiedEntries(i) ==
    {k \in DOMAIN auditLogs : /\ auditLogs[k].action = "EMAIL_VERIFIED"
                              /\ auditLogs[k].resource_id = i}

\* C32 (as claimed): the log never holds more than one EMAIL_VERIFIED entry
\* for the token of one account, and an account with such an entry is
\* verified and holds no verification token.
C32_VerifiedOncePerToken ==
    \A i \in Ids :
        /\ Cardinality(VerifiedEntries(i)) <= 1
        /\ VerifiedEntries(i) # {}
              => /\ clients[i].is_verified = 1
                 /\ clients[i].verification_token = NULL

\* an answer with a client-error status
ClientError(r) == r.pc = "done" /\ r.status \in 400..499

\* C33: a step that answers a request with a client-error status leaves the
\* accounts, the audit log and every session as they were.
C33_ClientErrorChangesNothing ==
    [][\A p \in Procs :
          (reqs'[p] # reqs[p] /\ ClientError(reqs'[p]))
              => /\ clients' = clients
                 /\ NoAudit
                 /\ session' = session]_vars

\* C33 witness: a login with a wrong password was refused on the session
\* that is bound to the admin's account
C33_Witness ==
    /\ Done("r1") /\ reqs["r1"].op = "login" /\ reqs["r1"].status = 401
    /\ session["s1"] \in Ids
    /\ clients[session["s1"]].email = SeedRow("admin").email
    /\ limiter["10.0.0.1"].hits >= 2

\* the columns of table clients that hold a token or a password hash
SecretColumns ==
    {"password_hash", "verification_token", "reset_token", "reset_token_expires"}

\* the payload, or one of the rows it lists, has a field of a secret column
Exposes(body) ==
    \/ (DOMAIN body \cup body.keys) \cap SecretColumns # {}
    \/ /\ "rows" \in DOMAIN body
       /\ \E k \in DOMAIN body.rows : DOMAIN body.rows[k] \cap SecretColumns # {}

\* C34: no answer carries a field of a token column or of the password hash,
\* also not in the rows of a list; and every message handed to the mail
\* sender is addressed to the email of the account that holds, as its
\* verification or reset token, the token the message carries.
C34_SecretsStayInside ==
    /\ [](\A p \in Procs : Done(p) => ~Exposes(reqs[p].body))
    /\ [][\A m \in outbox' \ outbox :
             \E i \in DOMAIN clients' :
                 /\ clients'[i].email = m.to
                 /\ m.token # NULL
                 /\ \/ clients'[i].verification_token = m.token
                    \/ clients'[i].reset_token = m.token]_vars

\* C34 witness: the admin was sent the list of users while one account held
\* a verification token and another a reset token, both mailed
C34_Witness ==
    /\ Done("r1") /\ reqs["r1"].op = "users" /\ reqs["r1"].status = 200
    /\ Len(reqs["r1"].body.rows) = 3
    /\ \E i \in Ids : clients[i].verification_token # NULL
    /\ \E i \in Ids : clients[i].reset_token # NULL
    /\ Cardinality(outbox) = 2

\* the columns of an account that a password reset does not write
KeptColumns ==
    {"email", "name", "is_admin", "is_verified", "verification_token"}

\* C35: the step that completes a ResetPassword leaves every session and
\* every other account as they were and, in the account it resets, every
\* column but the password hash, the reset token and its expiry; and a Login
\* for an account that has completed a reset but is not verified is still
\* answered 403 without binding the session.
C35_ResetFrame ==
    [][\A p \in Procs :
          /\ (Steps(p, "reset-password", "hash") /\ reqs'[p].status = 200)
                => /\ session' = session
                   /\ DOMAIN clients' = Ids
                   /\ \A i \in Ids :
                         IF i = reqs[p].row.id
                         THEN \A c \in KeptColumns : clients'[i][c] = clients[i][c]
                         ELSE clients'[i] = clients[i]
          /\ \A i \in Ids :
                (/\ Steps(p, "login", "get") /\ ResetCompleted(i)
                 /\ clients[i].email = reqs[p].v.email
                 /\ clients[i].is_verified = 0)
                    => /\ reqs'[p].pc = "done" /\ reqs'[p].status = 403
                       /\ session' = session]_vars

\* C35 witness: the registered account is logged in on s1, the seeded
\* client, not verified, has reset its password, and its Login was then
\* answered 403 with s1 bound as before
C35_Witness ==
    /\ Done("r1") /\ reqs["r1"].op = "login" /\ reqs["r1"].status = 403
    /\ session["s1"] \in Ids
    /\ clients[session["s1"]].email = "a@x.com"
    /\ \E i \in Ids :
          /\ clients[i].email = SeedRow("client").email
          /\ ResetCompleted(i)
          /\ clients[i].is_verified = 0
          /\ clients[i].password_hash = Hash("New456!")

====
